---- MODULE Spec2Model ----
(***************************************************************************)
(* Verification model of the mdg-polls data pipeline: the scripts that     *)
(* fetch poll pages from pollofpolls.no, assign them to election cycles,   *)
(* merge them into data/polling-data.json, re-classify their geographic    *)
(* scope, and export the national-only view.                               *)
(*                                                                         *)
(* Representation.                                                         *)
(*  - A calendar date is its day number since 1970-01-01 (every Date the   *)
(*    scripts build is a UTC midnight, so getTime()/(1000*3600*24) is that *)
(*    whole number and Math.ceil leaves it alone).                         *)
(*  - A percentage is held in tenths of a percent (5.8 % is 58).           *)
(*  - A url is [scheme, id]: the text before and the number after          *)
(*    "gallupid=".  Two urls are === exactly when both parts agree.        *)
(*  - A field a record does not carry (JavaScript undefined) is Absent.    *)
(*  - Strings are kept as strings; substring tests (String.includes) are   *)
(*    looked up in the table Keywords of the needles the scripts search.   *)
(*                                                                         *)
(* Outside the model: the NRK district fixer (it selects only dates with   *)
(* more than three polls, which the page catalogue never has), the         *)
(* read-only high-poll verifier, and the script that writes the literal    *)
(* demonstration dataset.                                                  *)
(***************************************************************************)
EXTENDS Integers, Sequences, FiniteSets, TLC

VARIABLES elections, publicData, lastOp, lastBatch, runs, pollDate, assigned,
          pc, scan, dataFile, wire, summary

vars == <<elections, publicData, lastOp, lastBatch, runs, pollDate, assigned,
          pc, scan, dataFile, wire, summary>>

\* The state of one run followed step by step: where the script stands (pc),
\* its local variables (scan), whether data/polling-data.json holds a complete
\* document (dataFile), the last thing sent to the site (wire) and the counts
\* the run has printed (summary).
stepVars == <<pc, scan, dataFile, wire, summary>>

Absent == "none"
\* A page without a usable date, a page or record without a percentage (null).
NoDate == 0 - 1
NoPct == 0 - 1

(***************************************************************************)
(* Election tables                                                         *)
(***************************************************************************)
\* Day numbers of 2011-09-12, 2013-09-09, 2017-09-11, 2021-09-13, 2025-09-08.
E2011 == 15229
E2013 == 15957
E2017 == 17420
E2021 == 18883
E2025 == 20339

ELECTION_DATES == [y \in {2011, 2013, 2017, 2021, 2025} |->
    CASE y = 2011 -> E2011 [] y = 2013 -> E2013 [] y = 2017 -> E2017
      [] y = 2021 -> E2021 [] y = 2025 -> E2025]

\* The years each script's own ELECTION_DATES table knows.
UpdaterYears == {2013, 2017, 2021, 2025}
TargetedYears == {2017, 2021}

WindowDays == 730

\* new Date(electionDate).setMonth(getMonth() - 24): the same day two years
\* earlier (2011-09-09 .. 2023-09-08; each span holds one 29 February).
TwentyFourMonthsBefore(y) == ELECTION_DATES[y] - 731

\* actualResults in PollUpdater.run, in tenths of a percent.
ActualResults == [y \in UpdaterYears |->
    CASE y = 2013 -> 28 [] y = 2017 -> 32 [] y = 2021 -> 39 [] OTHER -> NoPct]

calculateDaysUntilElection(date, electionDate) == electionDate - date

(***************************************************************************)
(* Sequence helpers                                                        *)
(***************************************************************************)
Range(s) == {s[i] : i \in DOMAIN s}

Min(S) == CHOOSE x \in S : \A y \in S : x <= y
Max(S) == CHOOSE x \in S : \A y \in S : x >= y

\* Array.prototype.sort((a, b) => new Date(a.date) - new Date(b.date)): a stable
\* sort by date (insertion of each element after the last one not later than it).
RECURSIVE InsertByDate(_, _)
InsertByDate(p, s) ==
    IF s = <<>> THEN <<p>>
    ELSE IF s[Len(s)].date <= p.date THEN Append(s, p)
    ELSE Append(InsertByDate(p, SubSeq(s, 1, Len(s) - 1)), s[Len(s)])

RECURSIVE SortByDate(_)
SortByDate(s) ==
    IF s = <<>> THEN <<>>
    ELSE InsertByDate(s[Len(s)], SortByDate(SubSeq(s, 1, Len(s) - 1)))

\* Array.prototype.findIndex: the first index whose element satisfies, or 0.
FirstIndex(s, Test(_)) ==
    IF \E i \in DOMAIN s : Test(s[i])
    THEN Min({i \in DOMAIN s : Test(s[i])})
    ELSE 0

RemoveAt(s, i) == SubSeq(s, 1, i - 1) \o SubSeq(s, i + 1, Len(s))

(***************************************************************************)
(* Strings.  Keywords(s) is the set of needles of the scripts' lists that  *)
(* s.toLowerCase() contains; RawKeywords(s) the needles s itself contains  *)
(* (the case-sensitive String.includes).  Non-ASCII letters are spelled in *)
(* ASCII ("Trondelag" for the code's 'Trøndelag', "oslo-maling" for        *)
(* 'oslo-måling').                                                         *)
(***************************************************************************)
NrkTitle == "Norstat for NRK"
AdresseTitle == "Sentio for Adresseavisen"
InfactTitle == "InFact for Amedia"
VenstreTitle == "Respons for Venstre"
RssNational == "Norstat for NRK, hele landet / stortingsvalg"
RssOslo == "Norstat for NRK, Oslo / stortingsvalg"
Tv2Title == "pollofpolls.no - Verian for TV2 28. august 2025"
Tv2Stripped == "Verian for TV2 28. august 2025"
NoTitle == ""

Keywords(s) ==
    CASE s = NrkTitle -> {"nrk", "norstat", "norstat for nrk"}
      [] s = AdresseTitle -> {"adresseavisen", "sentio"}
      [] s = InfactTitle -> {"infact", "amedia"}
      [] s = VenstreTitle -> {"respons", "for venstre"}
      [] s = RssNational -> {"nrk", "norstat", "norstat for nrk", "hele landet", "stortingsvalg"}
      [] s = RssOslo -> {"oslo", "nrk", "norstat", "norstat for nrk", "stortingsvalg"}
      [] s = Tv2Title -> {"tv2", "verian"}
      [] s = Tv2Stripped -> {"tv2", "verian"}
      [] s = "Hele landet" -> {"hele landet"}
      [] s = "Oslo" -> {"oslo"}
      [] s = "Sogn og Fjordane" -> {"sogn og fjordane"}
      [] s = "Norstat for NRK og Adresseavisen" ->
             {"adresseavisen", "nrk", "norstat", "norstat for nrk"}
      [] s = "Respons for Bergens Tidende og VG" ->
             {"bergen", "bergens tidende", "vg", "respons"}
      [] s = "Respons for Bergens Tidende" -> {"bergen", "bergens tidende", "respons"}
      [] s = "InFact for Nordlys" -> {"nordlys", "infact"}
      [] s = "InFact for Nordlys og TV2" -> {"nordlys", "tv2", "infact"}
      [] s = "Kantar for TV2" -> {"tv2", "kantar"}
      [] s = "Ipsos for Dagbladet" -> {"dagbladet", "ipsos"}
      [] s = "Opinion for Dagsavisen" -> {"dagsavisen", "opinion"}
      [] s = "Norfakta for Nationen og Klassekampen" ->
             {"nationen", "klassekampen", "norfakta"}
      [] s = "Sentio" -> {"sentio"}
      [] s = "Norstat" -> {"norstat"}
      [] s = "Telemarksavisa" -> {"telemark", "telemarksavisa"}
      [] s = "Opinion for Firda" -> {"firda", "opinion"}
      [] s = "Dagbladet" -> {"dagbladet"}
      [] OTHER -> {}

RawKeywords(s) ==
    CASE s = RssNational -> {"stortingsvalg", "hele landet"}
      [] s = RssOslo -> {"stortingsvalg"}
      [] s = Tv2Title -> {"pollofpolls.no - "}
      [] OTHER -> {}

Includes(s, needle) == needle \in Keywords(s)

\* s.toLowerCase()
Lower(s) ==
    CASE s = "Hele landet" -> "hele landet"
      [] s = "Oslo" -> "oslo"
      [] s = "Sogn og Fjordane" -> "sogn og fjordane"
      [] OTHER -> s

\* s.charAt(0).toUpperCase() + s.slice(1)
Capitalize(s) ==
    CASE s = "hele landet" -> "Hele landet"
      [] s = "oslo" -> "Oslo"
      [] s = "sogn og fjordane" -> "Sogn og fjordane"
      [] s = "unknown" -> "Unknown"
      [] OTHER -> s

\* title.match(/^([^,]+)/): the title up to its first comma, trimmed; 'Unknown'
\* when the title is empty.
LeadingSegment(title) ==
    CASE title = NoTitle -> "Unknown"
      [] title = RssNational -> NrkTitle
      [] title = RssOslo -> NrkTitle
      [] OTHER -> title

\* title.replace('pollofpolls.no - ', '').trim()
StripSitePrefix(title) ==
    IF "pollofpolls.no - " \in RawKeywords(title) THEN Tv2Stripped ELSE title

(***************************************************************************)
(* The external site: the poll pages by gallupid.                          *)
(*   quoteDate, bodyDate, titleDate: the date the blockquote, the body     *)
(*     text and the title give (day number, NoDate when there is none);    *)
(*   links, scripts: the MDG= values of the mandate links and of the       *)
(*     script tags, in document order, in tenths of a percent;             *)
(*   tablePct: the last positive value of the MDG column of the results    *)
(*     table (NoPct without one);                                          *)
(*   area: the value of the fact table's area row (Absent without one);    *)
(*   body: the needles the lower-cased body text contains; repeated: those *)
(*     it contains more than once; rssLine: the ", <area> /" patterns the  *)
(*     body text contains; th: the needles of the table headers.           *)
(***************************************************************************)
NoPage == [exists |-> FALSE, quoteDate |-> NoDate, bodyDate |-> NoDate,
           titleDate |-> NoDate, links |-> <<>>, scripts |-> <<>>,
           tablePct |-> NoPct, title |-> NoTitle, area |-> Absent,
           body |-> {}, repeated |-> {}, rssLine |-> {}, th |-> {}]

\* A page whose blockquote and body text give the same date.
Dated(d, pct, title, area) ==
    [NoPage EXCEPT !.exists = TRUE, !.quoteDate = d, !.bodyDate = d,
                   !.links = <<pct>>, !.title = title, !.area = area,
                   !.body = IF area = Absent THEN {} ELSE Keywords(area)]

SiteIds == {1700, 3000, 4100, 4101, 4102, 4103, 5590,
            5601, 5603, 5604, 5605, 5606, 5607}

Page(id) ==
    CASE id = 1700 -> [Dated(E2013 - 100, 20, NrkTitle, "Hele landet")
                          EXCEPT !.rssLine = {"hele landet"}]
      [] id = 3000 -> [Dated(E2017 - 200, 10, AdresseTitle, "Hele landet")
                          EXCEPT !.tablePct = 12]
      [] id = 4100 -> [Dated(E2021 - 24, 58, RssOslo, "Oslo")
                          EXCEPT !.repeated = {"oslo"}, !.rssLine = {"oslo"}]
      [] id = 4101 -> [Dated(E2021 - 730, 42, InfactTitle, "Sogn og Fjordane")
                          EXCEPT !.links = <<0, 42>>]
      [] id = 4102 -> Dated(E2021 - 731, 40, NrkTitle, "Hele landet")
      [] id = 4103 -> Dated(E2021 - 50, 20, VenstreTitle, "Oslo")
      [] id = 5590 -> [NoPage EXCEPT !.exists = TRUE, !.bodyDate = E2025 - 300,
                          !.titleDate = E2025 - 11, !.links = <<65>>,
                          !.title = Tv2Title, !.body = {"oslo-maling", "oslo"}]
      [] id = 5601 -> Dated(E2025 - 10, 10, NrkTitle, "Oslo")
      [] id = 5603 -> Dated(E2025 - 727, 45, NrkTitle, "Hele landet")
      [] id = 5604 -> Dated(E2013 - 730, 30, NrkTitle, "Hele landet")
      [] id = 5605 -> [NoPage EXCEPT !.exists = TRUE, !.quoteDate = E2025 - 5,
                          !.scripts = <<46>>, !.body = {"hele landet"},
                          !.th = {"hele landet"}]
      [] id = 5606 -> [NoPage EXCEPT !.exists = TRUE, !.links = <<50>>,
                          !.title = NrkTitle]
      [] id = 5607 -> Dated(E2021 + 10, 35, NrkTitle, "Hele landet")
      [] OTHER -> NoPage

(***************************************************************************)
(* Extraction: one page -> the details the fetchers return                 *)
(***************************************************************************)
Https == "https://www.pollofpolls.no/?cmd=Maling&gallupid="
Http == "http://www.pollofpolls.no/?cmd=Maling&gallupid="

Url(scheme, id) == [scheme |-> scheme, id |-> id]

\* What axios.get gives for a url: the site's page, unless the request fails.
Null == [ok |-> FALSE]

\* Date extraction of PollUpdater, PollFetcher and HistoricalFetcher: the
\* blockquote, then the long-form date of the body text, then of the title.
ExtractDate(page) ==
    IF page.quoteDate # NoDate THEN page.quoteDate
    ELSE IF page.bodyDate # NoDate THEN page.bodyDate
    ELSE page.titleDate

\* TargetedHistoricalFetcher looks for the long-form date of the body text only.
ExtractBodyDate(page) == page.bodyDate

\* mandateLinks.each: "if (mdgMatch && !mdgPercentage) mdgPercentage = value".
\* A value of 0 is falsy, so a later link replaces it.
RECURSIVE FirstTruthy(_, _)
FirstTruthy(values, acc) ==
    IF values = <<>> THEN acc
    ELSE FirstTruthy(Tail(values),
                     IF acc = NoPct \/ acc = 0 THEN Head(values) ELSE acc)

\* Percentage extraction: the links, and the script tags (the last one wins)
\* only when the links gave nothing truthy.
ExtractPct(page) ==
    LET fromLinks == FirstTruthy(page.links, NoPct)
    IN  IF (fromLinks = NoPct \/ fromLinks = 0) /\ page.scripts # <<>>
        THEN page.scripts[Len(page.scripts)]
        ELSE fromLinks

\* The scope PollUpdater and HistoricalFetcher read from the area row of the
\* fact table: 'Hele landet' -> national, any other value -> regional.
AreaScope(page) ==
    IF page.area = Absent THEN "unknown"
    ELSE IF page.area = "Hele landet" THEN "national"
    ELSE "regional"

\* PollUpdater.fetchPollDetails on the page the site gives for the url: null
\* when the request fails and when the page says the poll does not exist.
UpdaterDetailsOf(page, id, failed) ==
    IF failed \/ ~page.exists THEN Null
    ELSE [ok |-> TRUE, date |-> ExtractDate(page),
          mdgPercentage |-> ExtractPct(page),
          pollster |-> LeadingSegment(page.title),
          url |-> Url(Https, id), scope |-> AreaScope(page)]

\* PollUpdater.fetchPollDetails
UpdaterDetails(id, down) == UpdaterDetailsOf(Page(id), id, id \in down)

\* HistoricalFetcher.fetchPollDetails: as the updater's, without the
\* "does not exist" test (such a page has no date and no percentage).
HistoricalDetailsOf(page, id, failed) ==
    IF failed THEN Null
    ELSE [ok |-> TRUE, date |-> ExtractDate(page),
          mdgPercentage |-> ExtractPct(page),
          pollster |-> LeadingSegment(page.title),
          url |-> Url(Https, id), scope |-> AreaScope(page)]

HistoricalDetails(id, down) == HistoricalDetailsOf(Page(id), id, id \in down)

\* PollFetcher.fetchPollDetails: no scope; the url is the feed item's link.
FeedDetailsOf(page, id, failed) ==
    IF failed THEN Null
    ELSE [ok |-> TRUE, date |-> ExtractDate(page),
          mdgPercentage |-> ExtractPct(page),
          pollster |-> LeadingSegment(page.title),
          url |-> Url(Http, id), scope |-> Absent]

FeedDetails(id, down) == FeedDetailsOf(Page(id), id, id \in down)

\* TargetedHistoricalFetcher.fetchPollDetails
TargetedDetailsOf(page, id, failed) ==
    IF failed THEN Null
    ELSE [ok |-> TRUE, date |-> ExtractBodyDate(page),
          mdgPercentage |-> ExtractPct(page),
          pollster |-> StripSitePrefix(page.title),
          url |-> Url(Https, id), scope |-> Absent]

TargetedDetails(id, down) == TargetedDetailsOf(Page(id), id, id \in down)

\* "pollDetails && pollDetails.date && pollDetails.mdgPercentage !== null"
Usable(d) == d.ok /\ d.date # NoDate /\ d.mdgPercentage # NoPct

(***************************************************************************)
(* Poll records.  ev is a history tag, not a field of the program: the     *)
(* evidence the record's current scope was written from ("area": the       *)
(* structured area field; "text": free text of the page; "outlet": the     *)
(* pollster string; Absent: no scope resolved).                            *)
(***************************************************************************)
Poll(d, days, scope, ev) ==
    [date |-> d.date, mdgPercentage |-> d.mdgPercentage, pollster |-> d.pollster,
     daysUntilElection |-> days, url |-> d.url, scope |-> scope,
     region |-> Absent, rssTitle |-> Absent, electionYear |-> Absent, ev |-> ev]

AreaEvidence(scope) == IF scope = "unknown" THEN Absent ELSE "area"

Cycle(y, polls, actual) ==
    [electionDate |-> ELECTION_DATES[y], polls |-> polls, actualResult |-> actual]

\* existingData.elections[year] = cycle
Put(data, y, cycle) ==
    [z \in DOMAIN data \cup {y} |-> IF z = y THEN cycle ELSE data[z]]

(***************************************************************************)
(* PollUpdater (src/scripts/update-polls.js)                               *)
(***************************************************************************)
NoYear == NoDate

Abs(x) == IF x < 0 THEN 0 - x ELSE x

\* PollUpdater.determineElectionYear
determineElectionYear(date) ==
    IF date < ELECTION_DATES[2013] THEN NoYear
    ELSE LET distance(y) == Abs(ELECTION_DATES[y] - date)
             closestDistance == Min({distance(y) : y \in UpdaterYears})
             closestYear == Min({y \in UpdaterYears : distance(y) = closestDistance})
         IN  IF closestDistance <= WindowDays THEN closestYear ELSE NoYear

\* A window test without its upper end.
InWindowNoUpper(days) == days >= 0

\* The window test of fetchNewPolls, HistoricalFetcher and PollFetcher.
InWindow(days) == days >= 0 /\ days <= WindowDays

\* The cycle fetchNewPolls files a poll of this date under, NoYear when it
\* drops the poll.
AssignedCycle(date) ==
    LET y == determineElectionYear(date)
    IN  IF y = NoYear THEN NoYear
        ELSE IF InWindow(calculateDaysUntilElection(date, ELECTION_DATES[y]))
             THEN y ELSE NoYear

MaxChecks == 100
MaxConsecutiveNonExistent == 30

\* What one iteration of fetchNewPolls pushes for the details of an existing
\* page: the entry {electionYear, poll}, or nothing.
FoundOf(d) ==
    LET y == IF Usable(d) THEN AssignedCycle(d.date) ELSE NoYear
    IN  IF y = NoYear THEN <<>>
        ELSE <<[electionYear |-> y,
                poll |-> Poll(d, calculateDaysUntilElection(d.date, ELECTION_DATES[y]),
                              d.scope, AreaEvidence(d.scope))]>>

\* The line fetchNewPolls logs for one id.
Reported(d) ==
    IF ~d.ok THEN "Not found"
    ELSE IF ~Usable(d) THEN "No MDG data or invalid date"
    ELSE IF determineElectionYear(d.date) = NoYear THEN "Before tracking period"
    ELSE IF AssignedCycle(d.date) = NoYear THEN "Outside 24-month window"
    ELSE "Found new"

\* The loop of fetchNewPolls from id on: the entries {electionYear, poll} found
\* up to id last, stopping at MaxConsecutiveNonExistent misses in a row.
RECURSIVE Scan(_, _, _, _)
Scan(id, last, misses, down) ==
    IF id > last \/ misses >= MaxConsecutiveNonExistent THEN <<>>
    ELSE LET d == UpdaterDetails(id, down)
         IN  IF ~d.ok THEN Scan(id + 1, last, misses + 1, down)
             ELSE FoundOf(d) \o Scan(id + 1, last, 0, down)

fetchNewPolls(startId, down) == Scan(startId, startId + MaxChecks, 0, down)

\* PollUpdater.findHighestPollId: the largest gallupid of a stored url, 0 for
\* a dataset without polls.
findHighestPollId(data) ==
    LET ids == UNION {{p.url.id : p \in Range(data[y].polls)} : y \in DOMAIN data}
    IN  IF ids = {} THEN 0 ELSE Max(ids)

\* A merge that takes no url for stored.
UrlNeverExists(polls, url) == FALSE

\* "exists = polls.some(p => p.url === poll.url)"
UrlExists(polls, url) == \E i \in DOMAIN polls : polls[i].url = url

\* One iteration of newPolls.forEach in run: create the cycle when it is
\* missing, then push the poll unless its url is already in that cycle.
AddOne(acc, entry) ==
    LET y == entry.electionYear
        withCycle ==
          IF y \in DOMAIN acc.data THEN acc.data
          ELSE Put(acc.data, y, Cycle(y, <<>>, ActualResults[y]))
    IN  IF UrlExists(withCycle[y].polls, entry.poll.url)
        THEN [data |-> withCycle, added |-> acc.added]
        ELSE [data |-> [withCycle EXCEPT ![y].polls = Append(@, entry.poll)],
              added |-> acc.added + 1]

RECURSIVE AddAll(_, _)
AddAll(acc, batch) ==
    IF batch = <<>> THEN acc ELSE AddAll(AddOne(acc, Head(batch)), Tail(batch))

\* A run that leaves the cycles in push order.
SortNone(data) == data

\* The sort of every cycle that run makes when it added a poll.
SortAll(data) == [y \in DOMAIN data |-> [data[y] EXCEPT !.polls = SortByDate(@)]]

\* The add step of PollUpdater.run: the dataset after merging the batch, and
\* the number of polls inserted.
Merge(data, batch) ==
    LET r == AddAll([data |-> data, added |-> 0], batch)
    IN  IF r.added > 0 THEN [data |-> SortAll(r.data), added |-> r.added]
        ELSE [data |-> r.data, added |-> 0]

\* An export that drops the regional polls only.
AllButRegional(data) ==
    LET kept(y) == SelectSeq(data[y].polls, LAMBDA p : p.scope # "regional")
    IN  [y \in {z \in DOMAIN data : kept(z) # <<>>} |->
            [data[y] EXCEPT !.polls = kept(y)]]

\* The national-only projection every export writes.
NationalOnly(data) ==
    LET nat(y) == SelectSeq(data[y].polls, LAMBDA p : p.scope = "national")
    IN  [y \in {z \in DOMAIN data : nat(z) # <<>>} |->
            [data[y] EXCEPT !.polls = nat(y)]]

(***************************************************************************)
(* Walking the dataset.  Object.entries / Object.values of data.elections  *)
(* visit the years in ascending order (integer-like keys).                 *)
(***************************************************************************)
YearSeq == <<2011, 2013, 2017, 2021, 2025>>

\* The stored polls in visiting order, each with the year of its cycle: the
\* "{ ...poll, year, index }" snapshots the fixers collect before they fetch.
RECURSIVE ItemsFrom(_, _)
ItemsFrom(data, k) ==
    IF k > Len(YearSeq) THEN <<>>
    ELSE LET y == YearSeq[k]
             here == IF y \in DOMAIN data
                     THEN [i \in 1..Len(data[y].polls) |->
                              [year |-> y, poll |-> data[y].polls[i]]]
                     ELSE <<>>
         IN  here \o ItemsFrom(data, k + 1)

Items(data) == ItemsFrom(data, 1)

\* items.slice(0, n)
Slice(items, n) == SubSeq(items, 1, IF Len(items) < n THEN Len(items) ELSE n)

\* poll => f(poll) applied to every stored poll.
MapPolls(data, f(_)) ==
    [y \in DOMAIN data |->
        [data[y] EXCEPT !.polls = [i \in 1..Len(data[y].polls) |-> f(data[y].polls[i])]]]

\* electionPolls.find(p => p.url === url): its index, 0 when there is none.
FindUrl(polls, url) == FirstIndex(polls, LAMBDA p : p.url = url)

\* The first needle of the list (a sequence) that satisfies the test, Absent
\* when none does: "for (const region of regions) if (...) return".
FirstMatch(list, Test(_)) ==
    IF \E i \in DOMAIN list : Test(list[i])
    THEN list[Min({i \in DOMAIN list : Test(list[i])})]
    ELSE Absent

(***************************************************************************)
(* HistoricalFetcher (src/scripts/fix-poll-classification.js, second file) *)
(***************************************************************************)
RangeStart(y) == CASE y = 2013 -> 1614 [] y = 2017 -> 2900 [] y = 2021 -> 4041 [] y = 2025 -> 5240
RangeEnd(y) == CASE y = 2013 -> 2110 [] y = 2017 -> 3315 [] y = 2021 -> 4532 [] y = 2025 -> 5600
HistoricalYears == {2013, 2017, 2021, 2025}
SkipAbove == 5

\* One id of the loop of fetchHistoricalPolls: the poll it pushes, if any.
HistoricalFound(y, id, down) ==
    LET d == HistoricalDetails(id, down)
        days == calculateDaysUntilElection(d.date, ELECTION_DATES[y])
    IN  IF Usable(d) /\ InWindow(days) /\ d.date >= TwentyFourMonthsBefore(y)
           /\ d.date <= ELECTION_DATES[y]
        THEN <<Poll(d, days, d.scope, AreaEvidence(d.scope))>>
        ELSE <<>>

\* The ids start..end in ascending order.  An id the site has no page for
\* yields no date, so only the site's ids can push a poll; the walk visits
\* those, in the loop's order.
RECURSIVE HistoricalWalk(_, _, _)
HistoricalWalk(y, ids, down) ==
    IF ids = {} THEN <<>>
    ELSE LET id == Min(ids)
         IN  HistoricalFound(y, id, down) \o HistoricalWalk(y, ids \ {id}, down)

fetchHistoricalPolls(y, down) ==
    SortByDate(HistoricalWalk(y, {id \in SiteIds : id >= RangeStart(y) /\ id <= RangeEnd(y)}, down))

\* HistoricalFetcher.run: each year is skipped when its cycle holds more than
\* five polls, and replaced when the fetch found any poll.
HistoricalData(data, down) ==
    LET skip(y) == y \in DOMAIN data /\ Len(data[y].polls) > SkipAbove
        replaced == {y \in HistoricalYears : ~skip(y) /\ fetchHistoricalPolls(y, down) # <<>>}
    IN  [y \in DOMAIN data \cup replaced |->
            IF y \in replaced
            THEN [electionDate |-> ELECTION_DATES[y],
                  polls |-> fetchHistoricalPolls(y, down), actualResult |-> NoPct]
            ELSE data[y]]

(***************************************************************************)
(* PollFetcher (src/scripts/poll-fetcher.js)                               *)
(***************************************************************************)
FeedYears == <<2021, 2025>>

\* One feed item in processPollsForElection.
FeedFound(y, item, down) ==
    LET d == FeedDetails(item.id, down)
        days == calculateDaysUntilElection(d.date, ELECTION_DATES[y])
    IN  IF {"stortingsvalg", "hele landet"} \subseteq RawKeywords(item.title)
           /\ Usable(d) /\ InWindow(days)
        THEN <<[Poll(d, days, Absent, Absent) EXCEPT !.rssTitle = item.title]>>
        ELSE <<>>

RECURSIVE FeedWalk(_, _, _)
FeedWalk(y, items, down) ==
    IF items = <<>> THEN <<>>
    ELSE FeedFound(y, Head(items), down) \o FeedWalk(y, Tail(items), down)

processPollsForElection(items, y, down) == SortByDate(FeedWalk(y, items, down))

\* PollFetcher.run: a year whose feed polls are not empty has its cycle
\* replaced by them.
FeedData(data, items, down) ==
    LET replaced == {y \in Range(FeedYears) : processPollsForElection(items, y, down) # <<>>}
    IN  [y \in DOMAIN data \cup replaced |->
            IF y \in replaced
            THEN [electionDate |-> ELECTION_DATES[y],
                  polls |-> processPollsForElection(items, y, down), actualResult |-> NoPct]
            ELSE data[y]]

(***************************************************************************)
(* TargetedHistoricalFetcher (src/scripts/targeted-historical-fetcher.js)  *)
(***************************************************************************)
TargetedYearSeq == <<2017, 2021>>
YearKey(y) == IF y = 2017 THEN "2017" ELSE "2021"

\* The first election of the fetcher's table whose window holds the date,
\* NoYear when none does.
TargetElection(date) ==
    LET hit(k) == InWindow(calculateDaysUntilElection(date, ELECTION_DATES[TargetedYearSeq[k]]))
    IN  IF \E k \in DOMAIN TargetedYearSeq : hit(k)
        THEN TargetedYearSeq[Min({k \in DOMAIN TargetedYearSeq : hit(k)})]
        ELSE NoYear

\* The Map allPolls after the links: its values in insertion order.  A poll
\* is kept when no earlier one has its key "<date>_<percentage>".
RECURSIVE TargetedWalk(_, _, _)
TargetedWalk(found, links, down) ==
    IF links = <<>> THEN found
    ELSE LET d == TargetedDetails(Head(links), down)
             y == IF Usable(d) THEN TargetElection(d.date) ELSE NoYear
             has == \E i \in DOMAIN found :
                       /\ found[i].date = d.date
                       /\ found[i].mdgPercentage = d.mdgPercentage
             poll == [Poll(d, calculateDaysUntilElection(d.date, ELECTION_DATES[y]), Absent, Absent)
                         EXCEPT !.electionYear = YearKey(y)]
         IN  TargetedWalk(IF y = NoYear \/ has THEN found ELSE Append(found, poll),
                          Tail(links), down)

\* The end of fetchRealHistoricalData: every year with a found poll has its
\* cycle replaced by the found polls of that year, sorted.
TargetedPut(data, all) ==
    LET of(y) == SortByDate(SelectSeq(all, LAMBDA p : p.electionYear = YearKey(y)))
        replaced == {y \in TargetedYears : of(y) # <<>>}
    IN  [y \in DOMAIN data \cup replaced |->
            IF y \in replaced
            THEN [electionDate |-> ELECTION_DATES[y], polls |-> of(y), actualResult |-> NoPct]
            ELSE data[y]]

\* fetchRealHistoricalData: every year with a found poll has its cycle replaced.
TargetedData(data, links, down) == TargetedPut(data, TargetedWalk(<<>>, links, down))

(***************************************************************************)
(* Classification: the needle lists of the scripts, in the scripts' order  *)
(***************************************************************************)
\* PollClassificationFixer.regions and SmartPollClassifier.regionNames
RegionNames ==
    <<"oslo", "akershus", "ostfold", "vestfold", "telemark", "buskerud",
      "oppland", "hedmark", "vest-agder", "aust-agder", "agder", "rogaland",
      "hordaland", "bergen", "sogn og fjordane", "more og romsdal",
      "sor-trondelag", "trondelag", "trondheim", "nord-trondelag", "nordland",
      "troms", "finnmark", "stavanger", "kristiansand", "tromso",
      "drammen", "fredrikstad", "sarpsborg", "skien", "alesund", "bodo",
      "molde", "haugesund", "sandnes", "tonsberg", "moss", "arendal">>

\* PollDataEnhancer.regions
EnhancerRegions ==
    <<"oslo", "akershus", "ostfold", "vestfold", "telemark", "buskerud",
      "oppland", "hedmark", "vest-agder", "aust-agder", "rogaland",
      "hordaland", "bergen", "sogn og fjordane", "more og romsdal",
      "sor-trondelag", "trondheim", "nord-trondelag", "nordland",
      "troms", "finnmark", "stavanger", "kristiansand", "tromso",
      "drammen", "fredrikstad", "sarpsborg", "skien", "alesund">>

\* SmartPollClassifier.regionalOutlets
RegionalOutlets ==
    <<"telemarksavisa", "bt", "bergens tidende", "adressa", "adresseavisen",
      "stavanger aftenblad", "nordlys", "sunnmorsposten", "faedrelandsvennen",
      "gudbrandsdolen dagningen", "firda", "hamar arbeiderblad",
      "oppland arbeiderblad", "ostlendingen", "romerikes blad", "moss avis",
      "fredriksstad blad", "sarpsborg arbeiderblad", "drammens tidende",
      "laagendalsposten", "tonsbergs blad", "sandefjords blad",
      "vestfold og telemark", "agderposten", "lindesnes avis", "sorlandet",
      "rogalands avis", "haugesunds avis", "sunnhordland", "hordaland",
      "sogn avis", "fjordenes tidende", "more-nytt", "romsdals budstikke",
      "tidens krav", "tronder-avisa", "namdalsavisa", "nordlands framtid",
      "lofotposten", "avisa nordland", "nordlys", "finnmarken", "altaposten",
      "finnmark dagblad">>

\* SmartPollClassifier.nationalOutlets
NationalOutlets ==
    <<"tv2", "nrk", "vg", "dagbladet", "aftenposten", "dagens naeringsliv",
      "nettavisen", "vart land", "nationen", "klassekampen", "abc nyheter",
      "avisenes nyhetsbyra", "dagsavisen", "frifagbevegelse">>

\* The polling companies of classifyPoll's fourth method.
Companies ==
    {"norstat", "verian", "kantar", "opinion", "sentio", "respons", "ipsos",
     "infact", "norfakta"}

\* SmartPollClassifier.guessRegionFromOutlet
guessRegionFromOutlet(outlet) ==
    CASE outlet = "telemarksavisa" -> "Telemark"
      [] outlet \in {"bt", "bergens tidende"} -> "Hordaland"
      [] outlet \in {"adressa", "adresseavisen"} -> "Trondelag"
      [] outlet = "stavanger aftenblad" -> "Rogaland"
      [] outlet = "nordlys" -> "Troms"
      [] outlet = "sunnmorsposten" -> "More og Romsdal"
      [] outlet = "faedrelandsvennen" -> "Agder"
      [] outlet = "gudbrandsdolen dagningen" -> "Oppland"
      [] outlet = "firda" -> "Sogn og Fjordane"
      [] OTHER -> "Unknown region"

\* What a classifier returns: a scope, a region (Absent for null) and the
\* evidence the scope was read from.
Verdict(scope, region, ev) == [scope |-> scope, region |-> region, ev |-> ev]
UnknownVerdict == Verdict("unknown", Absent, Absent)

\* SmartPollClassifier.classifyPoll: the pollster string alone.
classifyPoll(poll) ==
    LET has(n) == Includes(poll.pollster, n)
        region == FirstMatch(RegionNames, has)
        regional == FirstMatch(RegionalOutlets, has)
        national == FirstMatch(NationalOutlets, has)
    IN  IF region # Absent THEN Verdict("regional", Capitalize(region), "outlet")
        ELSE IF regional # Absent
             THEN Verdict("regional", guessRegionFromOutlet(regional), "outlet")
        ELSE IF national # Absent THEN Verdict("national", Absent, "outlet")
        ELSE IF \E c \in Companies : has(c) THEN Verdict("national", Absent, "outlet")
        ELSE UnknownVerdict

\* PollDataEnhancer.analyzePollScope: free text of the body and of the title.
EnhancerScope(url, down) ==
    LET page == Page(url.id)
        has(n) == n \in page.body \/ Includes(page.title, n)
        region == FirstMatch(EnhancerRegions, has)
    IN  IF url.id \in down THEN UnknownVerdict
        ELSE IF has("hele landet") THEN Verdict("national", Absent, "text")
        ELSE IF region # Absent THEN Verdict("regional", Capitalize(region), "text")
        ELSE UnknownVerdict

\* PollClassificationFixer.analyzePollScope: the ", <area> /" line of the body
\* text, the title, then the table headers.
FixerScope(url, down) ==
    LET page == Page(url.id)
        has(n) == n \in page.rssLine \/ Includes(page.title, n)
        region == FirstMatch(RegionNames, has)
    IN  IF url.id \in down THEN UnknownVerdict
        ELSE IF has("hele landet") THEN Verdict("national", Absent, "text")
        ELSE IF region # Absent THEN Verdict("regional", Capitalize(region), "text")
        ELSE IF "hele landet" \in page.th THEN Verdict("national", Absent, "text")
        ELSE UnknownVerdict

\* The history tag of a record a pass has rewritten: a value the area field
\* gave and the pass left as it was is still the area field's.
Evidence(old, new, ev) ==
    IF old.ev = "area" /\ new.scope = old.scope /\ new.region = old.region
    THEN "area" ELSE ev

\* "poll.scope = v.scope; if (v.region) poll.region = v.region"
SetScopeKeepRegion(poll, v) ==
    LET new == [poll EXCEPT !.scope = v.scope,
                            !.region = IF v.region # Absent THEN v.region ELSE @]
    IN  [new EXCEPT !.ev = Evidence(poll, new, v.ev)]

\* "poll.scope = v.scope; if (v.region) poll.region = v.region; else delete poll.region"
SetScopeAndRegion(poll, v) ==
    LET new == [poll EXCEPT !.scope = v.scope, !.region = v.region]
    IN  [new EXCEPT !.ev = Evidence(poll, new, v.ev)]

\* PollDataEnhancer.enhanceExistingData: polls with a scope are skipped.
enhanceExistingData(data, down) ==
    MapPolls(data, LAMBDA p : IF p.scope # Absent THEN p
                              ELSE SetScopeKeepRegion(p, EnhancerScope(p.url, down)))

\* PollClassificationFixer.fixExistingClassification: only the polls marked
\* national are analysed again.
fixExistingClassification(data, down) ==
    MapPolls(data, LAMBDA p : IF p.scope # "national" THEN p
                              ELSE SetScopeAndRegion(p, FixerScope(p.url, down)))

\* SmartPollClassifier.classifyAllPolls: every poll is classified again.
classifyAllPolls(data) ==
    MapPolls(data, LAMBDA p : SetScopeKeepRegion(p, classifyPoll(p)))

(***************************************************************************)
(* The fixers that verify a poll against its page                          *)
(***************************************************************************)
\* The area row of the fact table, as every verify* method reads it: the
\* lower-cased cell, 'hele landet' -> national, anything else -> regional with
\* the cell's text capitalised.
TableScope(url, down) ==
    LET page == Page(url.id)
    IN  IF url.id \in down \/ page.area = Absent THEN UnknownVerdict
        ELSE IF Includes(page.area, "hele landet") THEN Verdict("national", Absent, "area")
        ELSE Verdict("regional", Capitalize(Lower(page.area)), "area")

\* MisclassifiedPollFixer.verifyPollScope: the area row, then the Oslo links.
MisclassifiedScope(url, down) ==
    LET v == TableScope(url, down)
    IN  IF url.id \notin down /\ v.scope = "unknown" /\ "oslo-maling" \in Page(url.id).body
        THEN Verdict("regional", "Oslo", "text")
        ELSE v

\* FinalPollCleanup.verifyPollScope: the area row, the Oslo links, 'hele
\* landet' anywhere, then a region the text names more than once.
FinalRegions ==
    <<"oslo", "bergen", "trondheim", "stavanger", "akershus", "rogaland",
      "hordaland", "vestland", "telemark", "vestfold", "ostfold", "hedmark",
      "oppland", "innlandet", "buskerud", "viken", "more og romsdal",
      "sor-trondelag", "trondelag", "nord-trondelag", "nordland", "troms",
      "finnmark">>

FinalScope(url, down) ==
    LET page == Page(url.id)
        v == TableScope(url, down)
        region == FirstMatch(FinalRegions, LAMBDA n : n \in page.body /\ n \in page.repeated)
    IN  IF url.id \in down \/ v.scope # "unknown" THEN v
        ELSE IF "oslo-maling" \in page.body THEN Verdict("regional", "Oslo", "text")
        ELSE IF "hele landet" \in page.body THEN Verdict("national", Absent, "text")
        ELSE IF region # Absent THEN Verdict("regional", Capitalize(region), "text")
        ELSE UnknownVerdict

\* OnePercentPollFixer.verifyOnePercentPoll: the area row, and the percentage
\* of the results table or, without one, of the last mandate link.
OnePercentActual(url, down) ==
    LET page == Page(url.id)
    IN  IF url.id \in down THEN NoPct
        ELSE IF page.tablePct # NoPct THEN page.tablePct
        ELSE IF page.links # <<>> THEN page.links[Len(page.links)]
        ELSE NoPct

\* "pollToUpdate = electionPolls.find(p => p.url === poll.url)" followed by an
\* update of that record.
UpdateFirst(data, item, f(_)) ==
    LET k == FindUrl(data[item.year].polls, item.poll.url)
    IN  IF k = 0 THEN data
        ELSE [data EXCEPT ![item.year].polls[k] = f(@)]

\* "electionPolls.splice(electionPolls.findIndex(p => p.url === poll.url), 1)"
RemoveFirst(data, item) ==
    LET k == FindUrl(data[item.year].polls, item.poll.url)
    IN  IF k = 0 THEN data
        ELSE [data EXCEPT ![item.year].polls = RemoveAt(@, k)]

Regional(v) == [v EXCEPT !.scope = "regional"]

\* One iteration of the loop of fixMisclassifiedPolls.
MisclassifiedStep(data, item, down) ==
    LET v == MisclassifiedScope(item.poll.url, down)
    IN  IF v.scope # "unknown" /\ v.scope # item.poll.scope
        THEN UpdateFirst(data, item, LAMBDA p : SetScopeAndRegion(p, v))
        ELSE data

\* One iteration of the loop of fixInFactAmediaPolls.
InFactStep(data, item, down) ==
    LET v == TableScope(item.poll.url, down)
    IN  IF v.scope = "regional"
        THEN UpdateFirst(data, item, LAMBDA p : SetScopeKeepRegion(p, Regional(v)))
        ELSE data

\* One iteration of the loop of cleanupRegionalPolls.
FinalStep(data, item, down) ==
    LET v == FinalScope(item.poll.url, down)
    IN  IF v.scope = "regional" /\ item.poll.scope = "national"
        THEN UpdateFirst(data, item, LAMBDA p : SetScopeKeepRegion(p, Regional(v)))
        ELSE data

\* One iteration of the loop of fixSuspiciousPatterns.
SuspiciousStep(data, item, down) ==
    IF TableScope(item.poll.url, down).scope = "regional"
    THEN RemoveFirst(data, item)
    ELSE data

\* One iteration of the loop of fixOnePercentPolls.
OnePercentStep(data, item, down) ==
    LET v == TableScope(item.poll.url, down)
        actual == OnePercentActual(item.poll.url, down)
        k == FindUrl(data[item.year].polls, item.poll.url)
    IN  IF k = 0 THEN data
        ELSE IF v.scope = "regional" THEN RemoveFirst(data, item)
        ELSE IF actual # NoPct /\ actual # 0 /\ actual # 10
             THEN UpdateFirst(data, item, LAMBDA p : [p EXCEPT !.mdgPercentage = actual])
        ELSE IF v.scope = "national" /\ data[item.year].polls[k].scope # "national"
             THEN UpdateFirst(data, item, LAMBDA p : SetScopeAndRegion(p, v))
        ELSE data

StepOf(fixer, data, item, down) ==
    CASE fixer = "misclassified" -> MisclassifiedStep(data, item, down)
      [] fixer = "infact" -> InFactStep(data, item, down)
      [] fixer = "final" -> FinalStep(data, item, down)
      [] fixer = "suspicious" -> SuspiciousStep(data, item, down)
      [] fixer = "onepercent" -> OnePercentStep(data, item, down)

\* "for (const poll of selected) { ... }" over the snapshots taken before the loop.
RECURSIVE ForEach(_, _, _, _)
ForEach(fixer, data, items, down) ==
    IF items = <<>> THEN data
    ELSE ForEach(fixer, StepOf(fixer, data, Head(items), down), Tail(items), down)

\* The selections of the fixers.
MisclassifiedLimit == 20
FinalLimit == 20
SuspiciousLimit == 50
Aug2021 == E2021 - 43

MisclassifiedSelected(data) ==
    Slice(SelectSeq(Items(data), LAMBDA it :
              it.poll.mdgPercentage > 60
              \/ (it.poll.scope = "national" /\ it.poll.mdgPercentage > 50)),
          MisclassifiedLimit)

InFactSelected(data) ==
    SelectSeq(Items(data), LAMBDA it :
        /\ Includes(it.poll.pollster, "infact")
        /\ Includes(it.poll.pollster, "amedia")
        /\ it.poll.scope = "national")

NrkDistricts ==
    {"akershus", "oslo", "rogaland", "hordaland", "telemark", "vestfold",
     "ostfold", "hedmark", "oppland", "buskerud"}

\* cleanupRegionalPolls pushes a poll once for each of its three tests.
RECURSIVE FinalPushes(_)
FinalPushes(items) ==
    IF items = <<>> THEN <<>>
    ELSE LET it == Head(items)
             high == it.poll.mdgPercentage > 60
             nrk == /\ Includes(it.poll.pollster, "nrk")
                    /\ \E d \in NrkDistricts : Includes(it.poll.pollster, d)
             vg == /\ it.year = 2021
                   /\ Includes(it.poll.pollster, "vg")
                   /\ it.poll.date >= Aug2021
         IN  (IF high THEN <<it>> ELSE <<>>) \o (IF nrk THEN <<it>> ELSE <<>>)
                 \o (IF vg THEN <<it>> ELSE <<>>) \o FinalPushes(Tail(items))

FinalSelected(data) == Slice(FinalPushes(Items(data)), FinalLimit)

LocalIndicators ==
    {"ringerikes blad", "raumnes", "bygdeposten", "lofotposten",
     "fredriksstad blad", "hamar arbeiderblad", "helgelendingen",
     "tronder-avisa", "sandnesposten", "gudbrandsdolen", "nordlys",
     "avisa nordland", "altaposten", "ostlands-posten"}

PartyCommissioned == {"for hoyre", "for venstre", "for arbeiderpartiet", "for senterpartiet"}

SuspiciousSelected(data) ==
    Slice(SelectSeq(Items(data), LAMBDA it :
              \/ it.poll.mdgPercentage = 20 /\ it.poll.scope = "national"
              \/ \E n \in LocalIndicators : Includes(it.poll.pollster, n)
              \/ /\ \E n \in PartyCommissioned : Includes(it.poll.pollster, n)
                 /\ it.poll.scope = "national"),
          SuspiciousLimit)

OnePercentSelected(data) ==
    SelectSeq(Items(data), LAMBDA it : it.poll.mdgPercentage = 10)

(***************************************************************************)
(* Inputs of a run                                                         *)
(***************************************************************************)
\* Subsets of the pages whose fetch may fail during one run.
MaxDown == 1
FlakyIds == {4100, 5601}
DownSets == {d \in SUBSET FlakyIds : Cardinality(d) <= MaxDown}

\* The items the RSS feed can list, and the feeds of at most MaxFeedLen items.
MaxFeedLen == 2
FeedItems ==
    {[title |-> RssNational, id |-> 5603],
     [title |-> RssNational, id |-> 4101],
     [title |-> RssOslo, id |-> 4100]}
Feeds == UNION {[1..n -> FeedItems] : n \in 0..MaxFeedLen}

\* The poll links the site's search can return, at most MaxSearchLen of them.
MaxSearchLen == 2
SearchIds == {3000, 4103, 5590}
SearchResults == UNION {[1..n -> SearchIds] : n \in 0..MaxSearchLen}

Op(name) == [name |-> name]

\* No script is being followed step by step.
NoScan == [script |-> "none"]
\* Nothing has been sent to the site yet.
Quiet == [last |-> "none", requests |-> 0]
\* No count has been printed.
NoSummary == [found |-> Absent, inserted |-> Absent, skippedDuplicate |-> Absent,
              discardedOutOfWindow |-> Absent]

\* The runs of one exploration are counted, and capped at MaxRuns.
MaxRuns == 3
Ran(name) ==
    /\ runs < MaxRuns
    /\ runs' = runs + 1
    /\ lastOp' = Op(name)
    /\ UNCHANGED stepVars

(***************************************************************************)
(* The runs.  data/polling-data.json is elections; the file the site       *)
(* serves (public/data and src/data) is publicData.                        *)
(***************************************************************************)
\* PollUpdater.run
UpdateRun(down) ==
    LET highestId == findHighestPollId(elections)
        newPolls == fetchNewPolls(highestId + 1, down)
        merged == Merge(elections, newPolls)
    IN  /\ Ran("update")
        /\ highestId # 0
        /\ newPolls # <<>>
        /\ elections' = IF merged.added > 0 THEN merged.data ELSE elections
        /\ lastBatch' = newPolls
        /\ UNCHANGED <<publicData, pollDate, assigned>>

\* HistoricalFetcher.run
HistoricalRun(down) ==
    /\ Ran("historical")
    /\ elections' = HistoricalData(elections, down)
    /\ UNCHANGED <<publicData, lastBatch, pollDate, assigned>>

\* PollFetcher.run
PollFetcherRun(items, down) ==
    /\ Ran("feed")
    /\ elections' = FeedData(elections, items, down)
    /\ UNCHANGED <<publicData, lastBatch, pollDate, assigned>>

\* TargetedHistoricalFetcher.run: the dataset is also copied, whole, to the
\* served file.
TargetedRun(links, down) ==
    /\ Ran("targeted")
    /\ elections' = TargetedData(elections, links, down)
    /\ publicData' = elections'
    /\ UNCHANGED <<lastBatch, pollDate, assigned>>

\* PollDataEnhancer.run
EnhanceRun(down) ==
    /\ Ran("enhance")
    /\ elections' = enhanceExistingData(elections, down)
    /\ publicData' = NationalOnly(elections')
    /\ UNCHANGED <<lastBatch, pollDate, assigned>>

\* PollClassificationFixer.run
FixClassificationRun(down) ==
    /\ Ran("fix-classification")
    /\ elections' = fixExistingClassification(elections, down)
    /\ publicData' = NationalOnly(elections')
    /\ UNCHANGED <<lastBatch, pollDate, assigned>>

\* SmartPollClassifier.run
SmartClassifyRun ==
    /\ Ran("smart")
    /\ elections' = classifyAllPolls(elections)
    /\ publicData' = NationalOnly(elections')
    /\ UNCHANGED <<lastBatch, pollDate, assigned>>

\* The run of a verifying fixer: its loop over its selection, the save, and
\* the national-only export.
FixerRun(fixer, selected, down) ==
    /\ Ran(fixer)
    /\ elections' = ForEach(fixer, elections, selected, down)
    /\ publicData' = NationalOnly(elections')
    /\ UNCHANGED <<lastBatch, pollDate, assigned>>

MisclassifiedRun(down) == FixerRun("misclassified", MisclassifiedSelected(elections), down)
InFactRun(down) == FixerRun("infact", InFactSelected(elections), down)
FinalCleanupRun(down) == FixerRun("final", FinalSelected(elections), down)
SuspiciousRun(down) == FixerRun("suspicious", SuspiciousSelected(elections), down)
OnePercentRun(down) == FixerRun("onepercent", OnePercentSelected(elections), down)

\* The sync-data script: the national-only projection of the dataset, written
\* to the served file.
SyncData ==
    /\ Ran("sync")
    /\ publicData' = NationalOnly(elections)
    /\ UNCHANGED <<elections, lastBatch, pollDate, assigned>>

NoData == [y \in {} |-> Cycle(y, <<>>, NoPct)]

Init ==
    /\ elections = NoData
    /\ publicData = NoData
    /\ lastOp = Op("init")
    /\ lastBatch = <<>>
    /\ runs = 0
    /\ pollDate = NoDate
    /\ assigned = NoYear
    /\ pc = "idle"
    /\ scan = NoScan
    /\ dataFile = "whole"
    /\ wire = Quiet
    /\ summary = NoSummary

Next ==
    \/ \E down \in DownSets : UpdateRun(down)
    \/ \E down \in DownSets : HistoricalRun(down)
    \/ \E items \in Feeds, down \in DownSets : PollFetcherRun(items, down)
    \/ \E links \in SearchResults, down \in DownSets : TargetedRun(links, down)
    \/ \E down \in DownSets : EnhanceRun(down)
    \/ \E down \in DownSets : FixClassificationRun(down)
    \/ SmartClassifyRun
    \/ \E down \in DownSets : MisclassifiedRun(down)
    \/ \E down \in DownSets : InFactRun(down)
    \/ \E down \in DownSets : FinalCleanupRun(down)
    \/ \E down \in DownSets : SuspiciousRun(down)
    \/ \E down \in DownSets : OnePercentRun(down)
    \/ SyncData

Spec == Init /\ [][Next]_vars

(***************************************************************************)
(* Cycle assignment as a function of the poll date                         *)
(***************************************************************************)
\* The dates tried: those within AssignSpan days of each election known to
\* the updater, and of the days WindowDays before and after it.
AssignSpan == 3
AssignDates ==
    {ELECTION_DATES[y] + side * WindowDays + k :
        y \in UpdaterYears, side \in {0 - 1, 0, 1}, k \in (0 - AssignSpan)..AssignSpan}

InitAssign ==
    /\ elections = NoData
    /\ publicData = NoData
    /\ lastOp = Op("init")
    /\ lastBatch = <<>>
    /\ runs = 0
    /\ pollDate \in AssignDates
    /\ assigned = NoYear
    /\ pc = "idle"
    /\ scan = NoScan
    /\ dataFile = "whole"
    /\ wire = Quiet
    /\ summary = NoSummary

\* determineElectionYear and the window check of fetchNewPolls, on one date.
AssignPoll ==
    /\ lastOp.name = "init"
    /\ assigned' = AssignedCycle(pollDate)
    /\ lastOp' = Op("assign")
    /\ UNCHANGED <<elections, publicData, lastBatch, runs, pollDate>>
    /\ UNCHANGED stepVars

NextAssign == AssignPoll

SpecAssign == InitAssign /\ [][NextAssign]_vars

(***************************************************************************)
(* The add step of PollUpdater.run on arbitrary datasets and batches       *)
(***************************************************************************)
MaxBatchLen == 2
MergeIds == {4100, 4103, 5601, 5605}

\* The entry fetchNewPolls makes of a page.
EntryOf(id) ==
    LET d == UpdaterDetails(id, {})
        y == AssignedCycle(d.date)
    IN  [electionYear |-> y,
         poll |-> Poll(d, calculateDaysUntilElection(d.date, ELECTION_DATES[y]),
                       d.scope, AreaEvidence(d.scope))]

MergeBatches == UNION {[1..n -> {EntryOf(id) : id \in MergeIds}] : n \in 0..MaxBatchLen}

\* The datasets tried: any of the pages already stored, each cycle sorted.
MergeDatasets ==
    {SortAll(AddAll([data |-> NoData, added |-> 0], stored).data) :
        stored \in UNION {[1..n -> {EntryOf(id) : id \in MergeIds}] : n \in 0..MaxBatchLen}}

InitMerge ==
    /\ elections \in MergeDatasets
    /\ publicData = NoData
    /\ lastOp = Op("init")
    /\ lastBatch \in MergeBatches
    /\ runs = 0
    /\ pollDate = NoDate
    /\ assigned = NoYear
    /\ pc = "idle"
    /\ scan = NoScan
    /\ dataFile = "whole"
    /\ wire = Quiet
    /\ summary = NoSummary

\* newPolls.forEach(...) and the sort, on the batch drawn.
MergeBatch ==
    /\ lastOp.name = "init"
    /\ elections' = Merge(elections, lastBatch).data
    /\ lastOp' = Op("merge")
    /\ UNCHANGED <<publicData, lastBatch, runs, pollDate, assigned>>
    /\ UNCHANGED stepVars

NextMerge == MergeBatch

SpecMerge == InitMerge /\ [][NextMerge]_vars


(***************************************************************************)
(* One run, step by step: every request to the site, every delay, the      *)
(* write of the data file, and the ways a run can end.                     *)
(***************************************************************************)
\* The site past the last catalogued page: with period p > 0 every p-th id is
\* the page of a national poll.
ScanPeriods == {0, 10, 29, 31}
LastCatalogued == Max(SiteIds)
SitePage(period, id) ==
    IF id <= LastCatalogued \/ period = 0 THEN Page(id)
    ELSE IF (id - LastCatalogued - 1) % period = 0
         THEN Dated(E2025 - 30, 40, NrkTitle, "Hele landet")
         ELSE NoPage

\* The pages whose request can fail during the scan.
ScanFlakyIds == {5603, 5618}
ScanDownSets == {d \in SUBSET ScanFlakyIds : Cardinality(d) <= MaxDown}

\* The datasets an update run can find: none, and one holding poll 5601.
UpdateDatasets == {NoData, Merge(NoData, <<EntryOf(5601)>>).data}

\* What happened to the last request (kind: what the site did; reported: the
\* line the script logged for it).
NoProbe == [id |-> 0, kind |-> "none", reported |-> "none"]

KindOf(page, failed) ==
    IF failed THEN "error" ELSE IF ~page.exists THEN "missing" ELSE "page"

\* A scan that gives up at the first miss.
ScanStopsAtMiss(startId, id, consecutiveNonExistent) ==
    /\ id <= startId + MaxChecks
    /\ consecutiveNonExistent < 1

\* "id <= startId + maxChecks && consecutiveNonExistent < maxConsecutiveNonExistent"
ScanGoesOn(startId, id, consecutiveNonExistent) ==
    /\ id <= startId + MaxChecks
    /\ consecutiveNonExistent < MaxConsecutiveNonExistent

\* The number of search terms of fetchRealHistoricalData.
NumSearchTerms == 7

Request == [last |-> "request", requests |-> wire.requests + 1]
Delayed == [wire EXCEPT !.last = "delay"]

Frame == UNCHANGED <<lastOp, lastBatch, runs, pollDate, assigned>>

\* PollUpdater.run up to the scan: load the data, find the highest id; a
\* dataset without polls ends the run with exit code 1.
UpdateStart ==
    /\ pc = "start"
    /\ scan.script = "update"
    /\ LET highestId == findHighestPollId(elections)
       IN  IF highestId = 0
           THEN /\ pc' = "failed"
                /\ UNCHANGED scan
           ELSE /\ pc' = "fetch"
                /\ scan' = [scan EXCEPT !.startId = highestId + 1, !.id = highestId + 1]
    /\ UNCHANGED <<elections, publicData, dataFile, wire, summary>>
    /\ Frame

\* One iteration of fetchNewPolls up to its delay: the request and what is
\* made of the answer.
UpdateProbe ==
    /\ pc = "fetch"
    /\ scan.script = "update"
    /\ ScanGoesOn(scan.startId, scan.id, scan.consecutiveNonExistent)
    /\ LET page == SitePage(scan.site, scan.id)
           failed == scan.id \in scan.down
           d == UpdaterDetailsOf(page, scan.id, failed)
       IN  scan' = [scan EXCEPT
                      !.consecutiveNonExistent = IF d.ok THEN 0 ELSE @ + 1,
                      !.newPolls = IF d.ok THEN @ \o FoundOf(d) ELSE @,
                      !.last = [id |-> scan.id, kind |-> KindOf(page, failed),
                                reported |-> Reported(d)]]
    /\ wire' = Request
    /\ pc' = "delay"
    /\ UNCHANGED <<elections, publicData, dataFile, summary>>
    /\ Frame

\* "await new Promise(resolve => setTimeout(resolve, 100))" and id++.
UpdateDelay ==
    /\ pc = "delay"
    /\ scan.script = "update"
    /\ wire' = Delayed
    /\ scan' = [scan EXCEPT !.id = @ + 1]
    /\ pc' = "fetch"
    /\ UNCHANGED <<elections, publicData, dataFile, summary>>
    /\ Frame

\* The scan is over: fetchNewPolls returns, run merges what was found into
\* the loaded data and, when a poll was added, goes on to save it.
UpdateMerge ==
    /\ pc = "fetch"
    /\ scan.script = "update"
    /\ ~ScanGoesOn(scan.startId, scan.id, scan.consecutiveNonExistent)
    /\ LET merged == Merge(elections, scan.newPolls)
       IN  /\ scan' = [scan EXCEPT !.pending = merged.data, !.added = merged.added]
           /\ pc' = IF merged.added > 0 THEN "write" ELSE "done"
    /\ summary' = [summary EXCEPT !.found = Len(scan.newPolls)]
    /\ UNCHANGED <<elections, publicData, dataFile, wire>>
    /\ Frame

\* PollFetcher.run up to the loops: load the data, fetch the RSS feed.  A
\* feed that cannot be fetched ends the run with exit code 1.
FeedStart ==
    /\ pc = "start"
    /\ scan.script = "feed"
    /\ wire' = [last |-> "rss", requests |-> wire.requests + 1]
    /\ \E ok \in BOOLEAN :
          IF ok THEN /\ pc' = "fetch"
                     /\ scan' = [scan EXCEPT !.pending = elections]
                ELSE /\ pc' = "failed"
                     /\ UNCHANGED scan
    /\ UNCHANGED <<elections, publicData, dataFile, summary>>
    /\ Frame

\* One iteration of processPollsForElection: an item whose title does not
\* pass the filter is skipped (continue); any other is fetched.
FeedItem ==
    /\ pc = "fetch"
    /\ scan.script = "feed"
    /\ scan.at <= Len(scan.items)
    /\ LET item == scan.items[scan.at]
           y == FeedYears[scan.year]
           failed == item.id \in scan.down
       IN  IF {"stortingsvalg", "hele landet"} \subseteq RawKeywords(item.title)
           THEN /\ scan' = [scan EXCEPT
                              !.processedPolls = @ \o FeedFound(y, item, scan.down),
                              !.last = [id |-> item.id,
                                        kind |-> KindOf(Page(item.id), failed),
                                        reported |-> "none"]]
                /\ wire' = Request
                /\ pc' = "delay"
           ELSE /\ scan' = [scan EXCEPT !.at = @ + 1]
                /\ UNCHANGED <<wire, pc>>
    /\ UNCHANGED <<elections, publicData, dataFile, summary>>
    /\ Frame

\* "await new Promise(resolve => setTimeout(resolve, 1000))", next item.
FeedDelay ==
    /\ pc = "delay"
    /\ scan.script = "feed"
    /\ wire' = Delayed
    /\ scan' = [scan EXCEPT !.at = @ + 1]
    /\ pc' = "fetch"
    /\ UNCHANGED <<elections, publicData, dataFile, summary>>
    /\ Frame

\* processPollsForElection returns the sorted polls; run replaces the cycle
\* when there are any, and goes to the next year or to the save.
FeedYearEnd ==
    /\ pc = "fetch"
    /\ scan.script = "feed"
    /\ scan.at > Len(scan.items)
    /\ LET y == FeedYears[scan.year]
           polls == SortByDate(scan.processedPolls)
           data == IF polls = <<>> THEN scan.pending
                   ELSE Put(scan.pending, y,
                            [electionDate |-> ELECTION_DATES[y], polls |-> polls,
                             actualResult |-> NoPct])
       IN  /\ scan' = [scan EXCEPT !.pending = data, !.processedPolls = <<>>,
                                   !.at = 1, !.year = @ + 1]
           /\ summary' = [summary EXCEPT !.found = Len(polls)]
    /\ pc' = IF scan.year < Len(FeedYears) THEN "fetch" ELSE "write"
    /\ UNCHANGED <<elections, publicData, dataFile, wire>>
    /\ Frame

\* fetchRealHistoricalData up to its loops: load the data.
TargetedStart ==
    /\ pc = "start"
    /\ scan.script = "targeted"
    /\ scan' = [scan EXCEPT !.pending = elections]
    /\ pc' = "search"
    /\ UNCHANGED <<elections, publicData, dataFile, wire, summary>>
    /\ Frame

\* searchPolls for the next search term: one request to the site's search,
\* giving the poll links of the result page (none when the request fails).
TargetedSearch ==
    /\ pc = "search"
    /\ scan.script = "targeted"
    /\ scan.term <= NumSearchTerms
    /\ \E links \in SearchResults : scan' = [scan EXCEPT !.links = links]
    /\ wire' = Request
    /\ pc' = "fetch"
    /\ UNCHANGED <<elections, publicData, dataFile, summary>>
    /\ Frame

\* One iteration of the loop over the links of a search, up to its delay.
TargetedFetch ==
    /\ pc = "fetch"
    /\ scan.script = "targeted"
    /\ scan.links # <<>>
    /\ LET id == Head(scan.links)
       IN  scan' = [scan EXCEPT
                      !.found = TargetedWalk(@, <<id>>, scan.down),
                      !.links = Tail(@),
                      !.last = [id |-> id,
                                kind |-> KindOf(Page(id), id \in scan.down),
                                reported |-> "none"]]
    /\ wire' = Request
    /\ pc' = "delay"
    /\ UNCHANGED <<elections, publicData, dataFile, summary>>
    /\ Frame

\* "await new Promise(resolve => setTimeout(resolve, 1000))"
TargetedDelay ==
    /\ pc = "delay"
    /\ scan.script = "targeted"
    /\ wire' = Delayed
    /\ pc' = "fetch"
    /\ UNCHANGED <<elections, publicData, scan, dataFile, summary>>
    /\ Frame

\* The links of a search are done: the delay between search terms.
TargetedTermEnd ==
    /\ pc = "fetch"
    /\ scan.script = "targeted"
    /\ scan.links = <<>>
    /\ wire' = Delayed
    /\ scan' = [scan EXCEPT !.term = @ + 1]
    /\ pc' = "search"
    /\ UNCHANGED <<elections, publicData, dataFile, summary>>
    /\ Frame

\* The search terms are done: the found polls replace their cycles, and the
\* data is saved.
TargetedSave ==
    /\ pc = "search"
    /\ scan.script = "targeted"
    /\ scan.term > NumSearchTerms
    /\ scan' = [scan EXCEPT !.pending = TargetedPut(@, scan.found)]
    /\ summary' = [summary EXCEPT !.found = Len(scan.found)]
    /\ pc' = "write"
    /\ UNCHANGED <<elections, publicData, dataFile, wire>>
    /\ Frame


\* fs.writeFileSync opens the data file for writing, which empties it.
WriteStart ==
    /\ pc = "write"
    /\ dataFile' = "partial"
    /\ pc' = "writing"
    /\ UNCHANGED <<elections, publicData, scan, wire, summary>>
    /\ Frame

\* The write completes; the updater then prints the number of polls added.
WriteEnd ==
    /\ pc = "writing"
    /\ elections' = scan.pending
    /\ dataFile' = "whole"
    /\ pc' = "done"
    /\ summary' = IF scan.script = "update"
                  THEN [summary EXCEPT !.inserted = scan.added]
                  ELSE summary
    /\ publicData' = IF scan.script = "targeted" THEN scan.pending ELSE publicData
    /\ UNCHANGED <<scan, wire>>
    /\ Frame

\* fs.writeFileSync throws (before or while writing): saveData rethrows, run
\* logs the error and exits with code 1.
WriteFails ==
    /\ pc \in {"write", "writing"}
    /\ pc' = "failed"
    /\ UNCHANGED <<elections, publicData, scan, dataFile, wire, summary>>
    /\ Frame

\* The process is killed.
Crash ==
    /\ pc \in {"start", "search", "fetch", "delay", "write", "writing"}
    /\ pc' = "crashed"
    /\ UNCHANGED <<elections, publicData, scan, dataFile, wire, summary>>
    /\ Frame

UpdateScans ==
    {[script |-> "update", site |-> p, down |-> d, startId |-> 0, id |-> 0,
      consecutiveNonExistent |-> 0, newPolls |-> <<>>, last |-> NoProbe,
      pending |-> NoData, added |-> 0] : p \in ScanPeriods, d \in ScanDownSets}

\* The datasets a feed or targeted run can find.
StoredDatasets == {NoData, Merge(NoData, <<EntryOf(4100), EntryOf(4103)>>).data}

FeedScans ==
    {[script |-> "feed", items |-> items, down |-> d, year |-> 1, at |-> 1,
      processedPolls |-> <<>>, last |-> NoProbe, pending |-> NoData, added |-> 0] :
        items \in Feeds, d \in DownSets}

TargetedScans ==
    {[script |-> "targeted", down |-> d, term |-> 1, links |-> <<>>, found |-> <<>>,
      last |-> NoProbe, pending |-> NoData, added |-> 0] : d \in DownSets}

InitRun ==
    /\ publicData = NoData
    /\ lastOp = Op("init")
    /\ lastBatch = <<>>
    /\ runs = 0
    /\ pollDate = NoDate
    /\ assigned = NoYear
    /\ pc = "start"
    /\ dataFile = "whole"
    /\ wire = Quiet
    /\ summary = NoSummary
    /\ \/ /\ scan \in UpdateScans
          /\ elections \in UpdateDatasets
       \/ /\ scan \in FeedScans \cup TargetedScans
          /\ elections \in StoredDatasets

NextRun ==
    \/ UpdateStart
    \/ UpdateProbe
    \/ UpdateDelay
    \/ UpdateMerge
    \/ FeedStart
    \/ FeedItem
    \/ FeedDelay
    \/ FeedYearEnd
    \/ TargetedStart
    \/ TargetedSearch
    \/ TargetedFetch
    \/ TargetedDelay
    \/ TargetedTermEnd
    \/ TargetedSave
    \/ WriteStart
    \/ WriteEnd
    \/ WriteFails
    \/ Crash

SpecRun == InitRun /\ [][NextRun]_vars

(***************************************************************************)
(* fetchPollDetails as a function of the page                              *)
(***************************************************************************)
\* The pages tried: each of the three date sources present or not (with three
\* different dates), and the mandate links, script tags and results table
\* with and without values, a link value of 0 included.
ExtractPages ==
    {[NoPage EXCEPT !.exists = TRUE, !.quoteDate = q, !.bodyDate = b,
                    !.titleDate = t, !.links = l, !.scripts = sc,
                    !.title = NrkTitle] :
        q \in {NoDate, E2021 - 60}, b \in {NoDate, E2021 - 40},
        t \in {NoDate, E2021 - 20},
        l \in {<<>>, <<0>>, <<0, 42>>, <<58>>, <<58, 42>>},
        sc \in {<<>>, <<46>>}}

ExtractPaths == {"update", "historical", "feed", "targeted"}

\* The details a fetcher returns for a page.
DetailsBy(path, page) ==
    CASE path = "update" -> UpdaterDetailsOf(page, 4200, FALSE)
      [] path = "historical" -> HistoricalDetailsOf(page, 4200, FALSE)
      [] path = "feed" -> FeedDetailsOf(page, 4200, FALSE)
      [] path = "targeted" -> TargetedDetailsOf(page, 4200, FALSE)

InitExtract ==
    /\ elections = NoData
    /\ publicData = NoData
    /\ lastOp = Op("init")
    /\ lastBatch = <<>>
    /\ runs = 0
    /\ pollDate = NoDate
    /\ assigned = NoYear
    /\ pc = "page"
    /\ scan \in {[script |-> "extract", path |-> path, page |-> page, got |-> Null,
                  kept |-> FALSE] : path \in ExtractPaths, page \in ExtractPages}
    /\ dataFile = "whole"
    /\ wire = Quiet
    /\ summary = NoSummary

\* fetchPollDetails on the page, and the test every ingest loop makes on its
\* result before it goes on to store a record.
ExtractDetails ==
    /\ pc = "page"
    /\ LET d == DetailsBy(scan.path, scan.page)
       IN  scan' = [scan EXCEPT !.got = d, !.kept = Usable(d)]
    /\ pc' = "extracted"
    /\ UNCHANGED <<elections, publicData, dataFile, wire, summary>>
    /\ Frame

NextExtract == ExtractDetails

SpecExtract == InitExtract /\ [][NextExtract]_vars

(***************************************************************************)
(* Properties                                                              *)
(***************************************************************************)
\* The polls of the whole dataset, each with its cycle and position.
Stored(data) ==
    UNION {{[year |-> y, at |-> i, poll |-> data[y].polls[i]] :
               i \in DOMAIN data[y].polls} : y \in DOMAIN data}

IdsOf(data) == {r.poll.url.id : r \in Stored(data)}

BatchUrls == {lastBatch[i].poll.url : i \in DOMAIN lastBatch}

\* C1: merging a batch is idempotent.  Once a batch has been merged into a
\* dataset, merging the same batch again inserts no poll and gives the same
\* dataset, whatever the dataset and the batch were.
C1_MergeIdempotent ==
    lastOp.name = "merge" =>
        LET again == Merge(elections, lastBatch)
        IN  again.added = 0 /\ again.data = elections

\* A merge has put polls of a batch of two next to a poll it found stored.
C1_Witness ==
    /\ lastOp.name = "merge"
    /\ Len(lastBatch) > 1
    /\ \E r \in Stored(elections) : r.poll.url \in BatchUrls
    /\ \E r \in Stored(elections) : r.poll.url \notin BatchUrls

\* C2: after any sequence of ingests and re-classification passes no two
\* records of the dataset, of one cycle or of two, carry the same gallupid.
C2_UniqueIds ==
    \A r1, r2 \in Stored(elections) :
        r1.poll.url.id = r2.poll.url.id => (r1.year = r2.year /\ r1.at = r2.at)

\* C3: in every reachable dataset every cycle's polls are in ascending order
\* of date.
C3_SortedByDate ==
    \A y \in DOMAIN elections :
        \A i, j \in DOMAIN elections[y].polls :
            i < j => elections[y].polls[i].date <= elections[y].polls[j].date

\* An update has merged a poll fetched later (a higher gallupid) that is dated
\* earlier than a poll the cycle already held.
C3_Witness ==
    /\ lastOp.name = "update"
    /\ \E y \in DOMAIN elections :
          \E i, j \in DOMAIN elections[y].polls :
              /\ i < j
              /\ elections[y].polls[i].url.id > elections[y].polls[j].url.id
              /\ elections[y].polls[i].date < elections[y].polls[j].date

\* The election closest to a date, the earlier one of two equally close.
ClosestElection(date) ==
    Min({y \in UpdaterYears :
            \A z \in UpdaterYears :
                Abs(ELECTION_DATES[y] - date) <= Abs(ELECTION_DATES[z] - date)})

\* C4: cycle assignment files a poll under its closest known election when the
\* poll is at most 730 days from it, and discards it otherwise, for every known
\* election, the earliest one included.  Stated for the polls dated on or before
\* their closest election: 730 days before it a poll is filed, 731 days before
\* it is discarded.
C4_ClosestElectionWithinWindow ==
    lastOp.name = "assign" =>
        LET y == ClosestElection(pollDate)
            distance == ELECTION_DATES[y] - pollDate
        IN  distance >= 0 =>
                assigned = IF distance <= WindowDays THEN y ELSE NoYear

\* C5: every record an ingest path stored carries daysUntilElection equal to
\* its cycle's election date minus its own date, in days, and between 0 and 730.
C5_DaysUntilElection ==
    \A r \in Stored(elections) :
        /\ r.poll.daysUntilElection = elections[r.year].electionDate - r.poll.date
        /\ r.poll.daysUntilElection >= 0
        /\ r.poll.daysUntilElection <= WindowDays

\* The poll of 2021-08-20 is stored in the cycle of 2021-09-13 with 24 days, and
\* a poll is stored at the window's far end, 730 days before its election.
C5_Witness ==
    /\ \E r \in Stored(elections) :
          /\ r.year = 2021
          /\ r.poll.date = E2021 - 24
          /\ r.poll.daysUntilElection = 24
    /\ \E r \in Stored(elections) : r.poll.daysUntilElection = WindowDays

\* The passes that classify from free text or from the pollster string only.
FreeTextPasses == {"smart", "fix-classification", "enhance"}

\* C6: classification strength is monotonic.  A pass that has only free-text or
\* pollster/outlet evidence never changes the scope or the region of a stored
\* poll whose scope was set from the structured area field.
C6_MonotonicStrength ==
    [][lastOp'.name \in FreeTextPasses =>
          \A y \in DOMAIN elections :
              \A i \in DOMAIN elections[y].polls :
                  elections[y].polls[i].ev = "area" =>
                      /\ elections'[y].polls[i].scope = elections[y].polls[i].scope
                      /\ elections'[y].polls[i].region = elections[y].polls[i].region]_vars

\* C7: when the page carries the area field the classification depends on it
\* alone: 'Hele landet' gives national, and any other value V gives regional
\* with region = V.  Stated of the polls the updater has just fetched.
C7_AreaFieldAlone ==
    lastOp.name = "update" =>
        \A i \in DOMAIN lastBatch :
            LET poll == lastBatch[i].poll
                area == Page(poll.url.id).area
            IN  area # Absent =>
                    IF area = "Hele landet"
                    THEN poll.scope = "national" /\ poll.region = Absent
                    ELSE poll.scope = "regional" /\ poll.region = area

\* C8: in every reachable dataset a record has a region if and only if its
\* scope is regional.
C8_RegionIffRegional ==
    \A r \in Stored(elections) :
        (r.poll.region # Absent) <=> (r.poll.scope = "regional")

\* C9: no operation removes a poll from the full dataset: every gallupid
\* stored before an operation is still stored after it.
C9_NoRemoval == [][IdsOf(elections) \subseteq IdsOf(elections')]_vars

\* The positions of the national polls of a sequence.
NationalAt(polls) == {i \in DOMAIN polls : polls[i].scope = "national"}

\* pub holds, for every cycle of data that has a national poll, the cycle with
\* exactly its national polls, in order and unchanged, and no other cycle.
IsNationalProjection(pub, data) ==
    /\ DOMAIN pub = {y \in DOMAIN data : NationalAt(data[y].polls) # {}}
    /\ \A y \in DOMAIN pub :
          LET from == data[y].polls
              nat == NationalAt(from)
          IN  /\ pub[y].electionDate = data[y].electionDate
              /\ pub[y].actualResult = data[y].actualResult
              /\ Len(pub[y].polls) = Cardinality(nat)
              /\ \A i \in nat :
                    pub[y].polls[Cardinality({j \in nat : j <= i})] = from[i]

\* The runs that end with the national-only export.
ExportingRuns ==
    {"sync", "enhance", "fix-classification", "smart", "misclassified", "infact",
     "final", "suspicious", "onepercent"}

\* C10: the national-only export is a pure projection.  What it writes holds,
\* for every cycle, exactly the polls of scope national, in their order and
\* with their fields unchanged (regional, unknown and unclassified polls are
\* left out), and the export itself leaves the source dataset as it was.
C10_PureProjection ==
    [][/\ lastOp'.name \in ExportingRuns =>
              IsNationalProjection(publicData', elections')
       /\ lastOp'.name = "sync" => elections' = elections]_vars

\* A sync has exported a cycle that holds national polls next to regional,
\* unknown and unclassified ones.
C10_Witness ==
    /\ lastOp.name = "sync"
    /\ \E y \in DOMAIN publicData :
          /\ \E i \in DOMAIN elections[y].polls : elections[y].polls[i].scope = "regional"
          /\ \E i \in DOMAIN elections[y].polls : elections[y].polls[i].scope = "unknown"
          /\ Len(publicData[y].polls) > 0

\* The runs that insert polls into cycles: the incremental merge and the
\* feed-based ingest.
InsertingRuns == {"update", "feed"}

\* C11: inserting polls changes nothing else.  After an update merge or a feed
\* ingest every cycle that was stored is still stored with its electionDate
\* and its actualResult, and every poll record it held is still in it with
\* all its fields.
C11_InsertionFrame ==
    [][lastOp'.name \in InsertingRuns =>
          \A y \in DOMAIN elections :
              /\ y \in DOMAIN elections'
              /\ elections'[y].electionDate = elections[y].electionDate
              /\ elections'[y].actualResult = elections[y].actualResult
              /\ \A i \in DOMAIN elections[y].polls :
                    \E j \in DOMAIN elections'[y].polls :
                        elections'[y].polls[j] = elections[y].polls[i]]_vars

\* C12: the sequential scan of fetchNewPolls fetches the ids one after the
\* other from the start id, and fetches an id only while fewer than 30 misses
\* in a row have been counted and fewer than the maximum number of checks
\* (maxChecks = 100) have been made; an existing page resets the count of
\* misses, any other outcome adds one to it.
C12_ScanStops ==
    [][(scan.script = "update" /\ wire'.requests > wire.requests) =>
          /\ scan.consecutiveNonExistent < MaxConsecutiveNonExistent
          /\ wire.requests < MaxChecks
          /\ scan'.last.id = scan.startId + wire.requests
          /\ scan'.consecutiveNonExistent =
                IF scan'.last.kind = "page" THEN 0
                ELSE scan.consecutiveNonExistent + 1]_vars

\* The same statement with one check more than maxChecks allowed: this is
\* what the loop "id <= startId + maxChecks" keeps.
ScanStopsOneLate ==
    [][(scan.script = "update" /\ wire'.requests > wire.requests) =>
          /\ scan.consecutiveNonExistent < MaxConsecutiveNonExistent
          /\ wire.requests < MaxChecks + 1
          /\ scan'.last.id = scan.startId + wire.requests
          /\ scan'.consecutiveNonExistent =
                IF scan'.last.kind = "page" THEN 0
                ELSE scan.consecutiveNonExistent + 1]_vars

\* C13: a request that fails is not retried more than once, counts as a miss
\* toward the stop condition, and is tallied in a category of its own: what
\* the scan records for it differs from what it records for a page that does
\* not exist.
C13_FailureTalliedApart ==
    (scan.script = "update" /\ scan.last.kind = "error") =>
        /\ scan.consecutiveNonExistent > 0
        /\ scan.last.reported # Reported(Null)

\* C14: in every fetching loop a delay lies between any two consecutive
\* requests to the site: no request of a loop is issued when the last thing
\* sent to the site was a request of the loop, whatever came of that request.
C14_DelayBetweenRequests ==
    [][(wire'.requests > wire.requests /\ wire'.last = "request") =>
          wire.last # "request"]_vars

\* The polls a run has collected, or merged in memory, that the data file
\* does not hold.
Unflushed ==
    LET collected ==
          CASE scan.script = "update" -> {e.poll.url : e \in Range(scan.newPolls)}
            [] scan.script = "feed" -> {p.url : p \in Range(scan.processedPolls)}
            [] scan.script = "targeted" -> {p.url : p \in Range(scan.found)}
            [] OTHER -> {}
    IN  collected \ {r.poll.url : r \in Stored(elections)}

\* C15: writes of the dataset are atomic.  When a run has failed or crashed,
\* the data file holds a complete dataset, the previous one or the new one,
\* never a partially written one.
C15_AtomicWrite ==
    pc \in {"failed", "crashed"} => dataFile = "whole"

\* C16: results are checkpointed before a stop condition is honoured.  When
\* the sequential scan leaves its loop (30 misses in a row, or the scan
\* length), the polls it found are in the data file, so that a crash from
\* there on loses none of them.
C16_CheckpointBeforeStop ==
    (/\ scan.script = "update"
     /\ pc = "fetch"
     /\ ~ScanGoesOn(scan.startId, scan.id, scan.consecutiveNonExistent)) =>
        Unflushed = {}

\* C17: every run ends by printing its outcome counts {inserted,
\* skippedDuplicate, discardedOutOfWindow}, also when nothing was inserted and
\* when the run fails part-way.
C17_SummaryAlways ==
    pc \in {"done", "failed"} =>
        /\ summary.inserted # Absent
        /\ summary.skippedDuplicate # Absent
        /\ summary.discardedOutOfWindow # Absent

\* The answer the updater gets for an id of the scan in progress.
AnswerAt(id) == UpdaterDetailsOf(SitePage(scan.site, id), id, id \in scan.down)

\* The ids of the scan's range that no run of MaxConsecutiveNonExistent
\* misses precedes, and those among them whose page is a poll of a tracked
\* window.
ScanRange == scan.startId..(scan.startId + MaxChecks)
BeforeTheEnd(id) ==
    ~\E k \in ScanRange :
        /\ k + MaxConsecutiveNonExistent <= id
        /\ \A j \in k..(k + MaxConsecutiveNonExistent - 1) : ~AnswerAt(j).ok
GoodIds ==
    {id \in ScanRange :
        BeforeTheEnd(id) /\ AnswerAt(id).ok /\ FoundOf(AnswerAt(id)) # <<>>}

\* C18: a failure on one record never aborts the batch.  When an update run
\* is done, the polls it stored are exactly the good pages of its range up to
\* the first run of 30 misses: no failed request, page without date or
\* percentage, or out-of-window poll is stored, and every good page before and
\* after one is.  When a feed run is done, every item that yields a poll for a
\* year is in that year's cycle.  A run fails only at its start or in its
\* save, never because the scan ended.
C18_FailuresDoNotAbort ==
    /\ (scan.script = "update" /\ pc = "done") =>
          {id \in IdsOf(elections) : id >= scan.startId} = GoodIds
    /\ (scan.script = "feed" /\ pc = "done") =>
          \A k \in DOMAIN FeedYears, i \in DOMAIN scan.items :
              LET got == FeedFound(FeedYears[k], scan.items[i], scan.down)
              IN  got # <<>> =>
                      /\ FeedYears[k] \in DOMAIN elections
                      /\ got[1] \in Range(elections[FeedYears[k]].polls)
    /\ (scan.script = "feed" /\ pc = "done") =>
          \A r \in Stored(elections) :
              r.poll.rssTitle # Absent => r.poll.url.id \notin scan.down
    /\ (scan.script = "update" /\ pc = "failed") =>
          (scan.startId = 0 \/ scan.added > 0)

\* An update run is done after a failed request (5618) between two stored
\* polls, and after a page filed under no cycle (5604) between two others.
C18_Witness ==
    /\ scan.script = "update"
    /\ pc = "done"
    /\ 5618 \in scan.down
    /\ {5603, 5605, 5608, 5628} \subseteq IdsOf(elections)
    /\ {5604, 5606, 5607, 5618} \cap IdsOf(elections) = {}

\* The first of the page's date sources that gives a date, in the order
\* blockquote, body text, title.
FirstDate(page) ==
    IF page.quoteDate # NoDate THEN page.quoteDate
    ELSE IF page.bodyDate # NoDate THEN page.bodyDate
    ELSE page.titleDate

\* C19: date extraction tries the blockquoted numeric date, then the long-form
\* date of the body, then the same pattern in the title, and the first that
\* gives a date wins; a page for which none gives a date is rejected by every
\* ingest path.
C19_DateOrder ==
    pc = "extracted" =>
        /\ scan.got.date = FirstDate(scan.page)
        /\ FirstDate(scan.page) = NoDate => ~scan.kept

\* The value of the first mandate link, a value of 0 included; the fallback
\* (the script tags) only for a page without such a link.
FirstPct(page) ==
    IF page.links # <<>> THEN page.links[1]
    ELSE IF page.scripts # <<>> THEN page.scripts[Len(page.scripts)]
    ELSE NoPct

\* C20: percentage extraction takes the value of the first calculation link
\* that carries one, 0 included, and turns to the fallback only when no link
\* carries one; a page without an extractable percentage is not persisted.
C20_FirstPercentageWins ==
    pc = "extracted" =>
        /\ scan.got.mdgPercentage = FirstPct(scan.page)
        /\ FirstPct(scan.page) = NoPct => ~scan.kept




(***************************************************************************)
(* Update runs one after the other: the schedule starts the updater again  *)
(* after each run (README: every two hours), over a site that stays the    *)
(* same: the catalogue alone, or the catalogue followed by a page every 31 *)
(* ids.  Requests and writes succeed.                                      *)
(***************************************************************************)
RepeatPeriods == {0, 31}

RepeatScans == {s \in UpdateScans : s.site \in RepeatPeriods /\ s.down = {}}

InitRepeat ==
    /\ publicData = NoData
    /\ lastOp = Op("init")
    /\ lastBatch = <<>>
    /\ runs = 0
    /\ pollDate = NoDate
    /\ assigned = NoYear
    /\ pc = "start"
    /\ dataFile = "whole"
    /\ wire = Quiet
    /\ summary = NoSummary
    /\ scan \in RepeatScans
    /\ elections \in UpdateDatasets

\* if (require.main === module) new PollUpdater().run(): the next scheduled run
UpdateAgain ==
    /\ pc \in {"done", "failed"}
    /\ scan.script = "update"
    /\ pc' = "start"
    /\ scan' = CHOOSE s \in UpdateScans : s.site = scan.site /\ s.down = scan.down
    /\ wire' = Quiet
    /\ summary' = NoSummary
    /\ UNCHANGED <<elections, publicData, dataFile>>
    /\ Frame

NextRepeat ==
    \/ UpdateStart
    \/ UpdateProbe
    \/ UpdateDelay
    \/ UpdateMerge
    \/ WriteStart
    \/ WriteEnd
    \/ UpdateAgain

\* Every run that is started goes on to its end, and the schedule goes on
\* starting runs.
SpecRepeat == InitRepeat /\ [][NextRepeat]_vars /\ WF_vars(NextRepeat)



(***************************************************************************)
(* Two runs at the same time: an update run and a classification pass.     *)
(* Each reads the data file into memory, awaits its requests, changes its  *)
(* copy and writes the whole copy back; the awaits are where the other     *)
(* process can run.  The datasets hold fewer polls than the passes count   *)
(* between two saves of their progress, so that a pass saves once.         *)
(***************************************************************************)
OverlapFiles ==
    {Merge(d, <<EntryOf(5601)>>).data :
        d \in {HistoricalData(NoData, down) : down \in DownSets}}

OverlapPasses == {"enhance", "fix-classification"}

Waiting == [pc |-> "start", data |-> NoData]

InitOverlap ==
    /\ elections \in OverlapFiles
    /\ publicData = NoData
    /\ lastOp = Op("init")
    /\ lastBatch = <<>>
    /\ runs = 0
    /\ pollDate = NoDate
    /\ assigned = NoYear
    /\ pc = "overlap"
    /\ \E pass \in OverlapPasses, down \in DownSets, downPass \in DownSets :
           scan = [script |-> "overlap", pass |-> pass, down |-> down,
                   downPass |-> downPass, loaded |-> elections,
                   updater |-> Waiting, fixer |-> Waiting]
    /\ dataFile = "whole"
    /\ wire = Quiet
    /\ summary = NoSummary

OverlapFrame ==
    /\ UNCHANGED <<publicData, dataFile, wire, summary, pc>>
    /\ Frame

\* PollUpdater.run: loadExistingData
UpdaterLoads ==
    /\ scan.script = "overlap"
    /\ scan.updater.pc = "start"
    /\ scan' = [scan EXCEPT !.updater = [pc |-> "loaded", data |-> elections]]
    /\ UNCHANGED elections
    /\ OverlapFrame

\* PollUpdater.run: fetchNewPolls and the merge into the loaded data
UpdaterMerges ==
    /\ scan.script = "overlap"
    /\ scan.updater.pc = "loaded"
    /\ LET data == scan.updater.data
           newPolls == fetchNewPolls(findHighestPollId(data) + 1, scan.down)
           merged == Merge(data, newPolls)
       IN  scan' = [scan EXCEPT !.updater =
                        [pc |-> IF merged.added > 0 THEN "changed" ELSE "done",
                         data |-> merged.data]]
    /\ UNCHANGED elections
    /\ OverlapFrame

\* PollDataEnhancer.enhanceExistingData, PollClassificationFixer.
\* fixExistingClassification: JSON.parse(fs.readFileSync(this.dataFile))
PassLoads ==
    /\ scan.script = "overlap"
    /\ scan.fixer.pc = "start"
    /\ scan' = [scan EXCEPT !.fixer = [pc |-> "loaded", data |-> elections]]
    /\ UNCHANGED elections
    /\ OverlapFrame

\* the loop of the pass over the polls of its copy
PassClassifies ==
    /\ scan.script = "overlap"
    /\ scan.fixer.pc = "loaded"
    /\ scan' = [scan EXCEPT !.fixer =
                   [pc |-> "changed",
                    data |-> IF scan.pass = "enhance"
                             THEN enhanceExistingData(scan.fixer.data, scan.downPass)
                             ELSE fixExistingClassification(scan.fixer.data,
                                                            scan.downPass)]]
    /\ UNCHANGED elections
    /\ OverlapFrame

\* saveData: the copy of the process replaces the file
OverlapSaves ==
    /\ scan.script = "overlap"
    /\ \E who \in {"updater", "fixer"} :
           /\ scan[who].pc = "changed"
           /\ elections' = scan[who].data
           /\ scan' = [scan EXCEPT ![who].pc = "done"]
    /\ OverlapFrame

NextOverlap ==
    \/ UpdaterLoads
    \/ UpdaterMerges
    \/ PassLoads
    \/ PassClassifies
    \/ OverlapSaves

SpecOverlap == InitOverlap /\ [][NextOverlap]_vars


(***************************************************************************)
(* Numbers of the chart code.  A JavaScript number is an IEEE 754 binary64 *)
(* value; the ones the rolling average meets are zero and the positive     *)
(* normal numbers, kept here as m * 2^e with 2^52 <= m < 2^53.  The        *)
(* mantissa is a natural number in limbs of 15 bits, lowest first, so that *)
(* no intermediate value leaves the range of the checker's integers.       *)
(* Sums and quotients are rounded to nearest, ties to even.                *)
(***************************************************************************)
LimbBits == 15
LimbBase == 2 ^ LimbBits
NumLimbs == 6
MantissaBits == 53
Limbs == 1 .. NumLimbs

Big == [Limbs -> 0 .. LimbBase - 1]
BigZero == [i \in Limbs |-> 0]

\* The operations are functions, not operators: an argument is a value,
\* computed once, and not an expression computed again at each use.

\* a natural number below 2^30 as limbs
BigOfInt[n \in Nat] ==
    [i \in Limbs |-> IF i = 1 THEN n % LimbBase
                     ELSE IF i = 2 THEN (n \div LimbBase) % LimbBase
                     ELSE 0]

BigIsZero(a) == \A i \in Limbs : a[i] = 0

BitsOf[x \in Nat] ==
    IF x = 0 THEN 0 ELSE CHOOSE b \in 1 .. LimbBits : 2 ^ (b - 1) <= x /\ x < 2 ^ b

BigBits[a \in Big] ==
    IF BigIsZero(a) THEN 0
    ELSE LET top == Max({i \in Limbs : a[i] # 0})
         IN  (top - 1) * LimbBits + BitsOf[a[top]]

BigAdd[a \in Big, b \in Big] ==
    LET c[i \in 1 .. NumLimbs + 1] ==
            IF i = 1 THEN 0 ELSE (a[i - 1] + b[i - 1] + c[i - 1]) \div LimbBase
    IN  [i \in Limbs |-> (a[i] + b[i] + c[i]) % LimbBase]

\* a * k for 0 <= k < 2^15
BigMulSmall[a \in Big, k \in Nat] ==
    LET c[i \in 1 .. NumLimbs + 1] ==
            IF i = 1 THEN 0 ELSE (a[i - 1] * k + c[i - 1]) \div LimbBase
    IN  [i \in Limbs |-> (a[i] * k + c[i]) % LimbBase]

\* quotient and remainder of a by n, 0 < n < 2^15
BigDivSmall[a \in Big, n \in Nat] ==
    LET r[i \in 1 .. NumLimbs + 1] ==
            IF i = NumLimbs + 1 THEN 0 ELSE (r[i + 1] * LimbBase + a[i]) % n
    IN  [q |-> [i \in Limbs |-> (r[i + 1] * LimbBase + a[i]) \div n], r |-> r[1]]

\* a * 2^k
BigShiftLeft[a \in Big, k \in Nat] ==
    LET w == k \div LimbBits
    IN  BigMulSmall[[i \in Limbs |-> IF i <= w THEN 0 ELSE a[i - w]], 2 ^ (k % LimbBits)]

\* a \div 2^k
BigShiftRight[a \in Big, k \in Nat] ==
    LET w == k \div LimbBits
    IN  BigDivSmall[[i \in Limbs |-> IF i + w > NumLimbs THEN 0 ELSE a[i + w]],
                    2 ^ (k % LimbBits)].q

\* bit k of a (bit 0 is the lowest)
BigBit(a, k) == (a[k \div LimbBits + 1] \div 2 ^ (k % LimbBits)) % 2

\* some bit of a below bit k is set
BigLowBits(a, k) ==
    \/ \E i \in Limbs : i <= k \div LimbBits /\ a[i] # 0
    \/ a[k \div LimbBits + 1] % 2 ^ (k % LimbBits) # 0

BigLess(a, b) ==
    \E i \in Limbs : a[i] < b[i] /\ \A j \in Limbs : j > i => a[j] = b[j]

Floats == [m : Big, e : Int]
Float(m, e) == [m |-> m, e |-> e]
FloatZero == Float(BigZero, 0)

\* The binary64 value nearest to n * 2^e (plus a nonzero fraction below the
\* last bit of n when sticky), ties to even: the bits of n below the top 53
\* are dropped, the highest of them is the guard bit.
RoundToFloat[n \in Big, e \in Int, sticky \in BOOLEAN] ==
    LET drop == BigBits[n] - MantissaBits
    IN  IF BigIsZero(n) THEN FloatZero
        ELSE IF drop <= 0 THEN Float(BigShiftLeft[n, 0 - drop], e + drop)
        ELSE LET kept == BigShiftRight[n, drop]
                 guard == BigBit(n, drop - 1) = 1
                 lower == sticky \/ BigLowBits(n, drop - 1)
                 up == guard /\ (lower \/ kept[1] % 2 = 1)
                 m == IF up THEN BigAdd[kept, BigOfInt[1]] ELSE kept
             IN  IF BigBits[m] > MantissaBits
                 THEN Float(BigShiftRight[m, 1], e + drop + 1)
                 ELSE Float(m, e + drop)

\* parseFloat of a percentage written with one decimal: t tenths, t < 2^15
FloatOfTenths[t \in Nat] ==
    LET d == BigDivSmall[BigShiftLeft[BigOfInt[t], 4 * LimbBits], 10]
    IN  RoundToFloat[d.q, 0 - 4 * LimbBits, d.r # 0]

\* x + y
FloatAdd[x \in Floats, y \in Floats] ==
    IF BigIsZero(x.m) THEN y
    ELSE IF BigIsZero(y.m) THEN x
    ELSE LET e == IF x.e < y.e THEN x.e ELSE y.e
         IN  RoundToFloat[BigAdd[BigShiftLeft[x.m, x.e - e], BigShiftLeft[y.m, y.e - e]],
                          e, FALSE]

\* x / n for a count n, 0 < n < 2^8
FloatDivInt[x \in Floats, n \in Nat] ==
    LET d == BigDivSmall[BigShiftLeft[x.m, LimbBits], n]
    IN  RoundToFloat[d.q, x.e - LimbBits, d.r # 0]

\* x < y
FloatLess(x, y) ==
    IF BigIsZero(y.m) THEN FALSE
    ELSE IF BigIsZero(x.m) THEN TRUE
    ELSE x.e < y.e \/ (x.e = y.e /\ BigLess(x.m, y.m))


(***************************************************************************)
(* calculateRollingAverage(polls, windowDays), one loop iteration per      *)
(* step.  A poll is its daysUntilElection and its mdgPercentage in tenths  *)
(* (the number the chart reads is FloatOfTenths of it); windowDays / 2 is  *)
(* compared on doubled integers, which is exact for whole days.            *)
(***************************************************************************)
ChartPoll(days, tenths) == [daysUntilElection |-> days, mdgPercentage |-> tenths]
ChartPolls == [daysUntilElection : Nat, mdgPercentage : Nat]

\* [...polls].sort((a, b) => a.daysUntilElection - b.daysUntilElection): stable
InsertByDays[p \in ChartPolls, s \in Seq(ChartPolls)] ==
    IF s = <<>> THEN <<p>>
    ELSE IF s[Len(s)].daysUntilElection <= p.daysUntilElection THEN Append(s, p)
    ELSE Append(InsertByDays[p, SubSeq(s, 1, Len(s) - 1)], s[Len(s)])

SortByDays[s \in Seq(ChartPolls)] ==
    IF s = <<>> THEN <<>>
    ELSE InsertByDays[s[Len(s)], SortByDays[SubSeq(s, 1, Len(s) - 1)]]

\* the filter of the loop body: windowStart <= daysUntilElection <= windowEnd
PollInsideWindow(poll, day, windowDays) ==
    /\ 2 * poll.daysUntilElection > 2 * day - windowDays
    /\ 2 * poll.daysUntilElection < 2 * day + windowDays

PollInWindow(poll, day, windowDays) ==
    /\ 2 * poll.daysUntilElection >= 2 * day - windowDays
    /\ 2 * poll.daysUntilElection <= 2 * day + windowDays

\* pollsInWindow.reduce((sum, poll) => sum + poll.mdgPercentage, 0)
WindowSum[w \in Seq(ChartPolls)] ==
    IF w = <<>> THEN FloatZero
    ELSE FloatAdd[WindowSum[SubSeq(w, 1, Len(w) - 1)],
                  FloatOfTenths[w[Len(w)].mdgPercentage]]

\* Math.max(3, Math.floor((maxDays - minDays) / 100))
StepOver(minDays, maxDays) ==
    IF (maxDays - minDays) \div 100 > 3 THEN (maxDays - minDays) \div 100 ELSE 3

\* The lists handed to the function: short ones in any order, and series
\* over a long range, sparse (two polls) and dense (a poll every 14 days).
ShortDays == {0, 8, 20}
ShortValues == {32, 46}
MaxShortLen == 3
ShortPolls == {ChartPoll(d, v) : d \in ShortDays, v \in ShortValues}
ShortLists == UNION {[1 .. n -> ShortPolls] : n \in 0 .. MaxShortLen}
Dense(last) ==
    [i \in 1 .. last \div 14 + 2 |->
        IF i = last \div 14 + 2 THEN ChartPoll(last, 46) ELSE ChartPoll(14 * (i - 1), 46)]
LongLists ==
    {<<ChartPoll(299, 46), ChartPoll(0, 32)>>, <<ChartPoll(0, 32), ChartPoll(300, 46)>>,
     <<ChartPoll(0, 32), ChartPoll(730, 46)>>, Dense(50), Dense(399)}
ChartWindows == {7, 10, 14}

InitAverage ==
    /\ elections = NoData
    /\ publicData = NoData
    /\ lastOp = Op("none")
    /\ lastBatch = <<>>
    /\ runs = 0
    /\ pollDate = NoDate
    /\ assigned = Absent
    /\ pc = "called"
    /\ \E polls \in ShortLists \cup LongLists, windowDays \in ChartWindows :
           scan = [script |-> "average", polls |-> polls, windowDays |-> windowDays,
                   sortedPolls |-> <<>>, minDays |-> 0, maxDays |-> 0, step |-> 0,
                   day |-> 0, averages |-> <<>>]
    /\ dataFile = "whole"
    /\ wire = Quiet
    /\ summary = NoSummary

AverageFrame ==
    /\ UNCHANGED <<elections, publicData, dataFile, wire, summary>>
    /\ Frame

\* fewer than two polls: return []
AverageNone ==
    /\ pc = "called"
    /\ scan.script = "average"
    /\ Len(scan.polls) < 2
    /\ pc' = "returned"
    /\ UNCHANGED scan
    /\ AverageFrame

\* the sorted copy, the range and the step
AverageStart ==
    /\ pc = "called"
    /\ scan.script = "average"
    /\ Len(scan.polls) >= 2
    /\ LET sorted == SortByDays[scan.polls]
           days == {sorted[i].daysUntilElection : i \in DOMAIN sorted}
       IN  scan' = [scan EXCEPT !.sortedPolls = sorted,
                                !.minDays = Min(days),
                                !.maxDays = Max(days),
                                !.step = StepOver(Min(days), Max(days)),
                                !.day = Min(days)]
    /\ pc' = "loop"
    /\ AverageFrame

\* one iteration of for (let day = minDays; day <= maxDays; day += step)
AverageStep ==
    /\ pc = "loop"
    /\ scan.day <= scan.maxDays
    /\ LET pollsInWindow ==
               SelectSeq(scan.sortedPolls,
                         LAMBDA poll : PollInWindow(poll, scan.day, scan.windowDays))
       IN  scan' = [scan EXCEPT
                      !.averages =
                          IF Len(pollsInWindow) > 0
                          THEN Append(@, [x |-> scan.day,
                                          y |-> FloatDivInt[WindowSum[pollsInWindow],
                                                            Len(pollsInWindow)]])
                          ELSE @,
                      !.day = @ + scan.step]
    /\ UNCHANGED pc
    /\ AverageFrame

AverageReturn ==
    /\ pc = "loop"
    /\ scan.day > scan.maxDays
    /\ pc' = "returned"
    /\ UNCHANGED scan
    /\ AverageFrame

NextAverage == AverageNone \/ AverageStart \/ AverageStep \/ AverageReturn

SpecAverage == InitAverage /\ [][NextAverage]_vars


(***************************************************************************)
(* The smart classifier on one stored poll: classifyAllPolls reads the     *)
(* pollster string of the poll, and writes the scope and, when the verdict *)
(* names one, the region.                                                  *)
(***************************************************************************)
ClassifyPollsters ==
    {NrkTitle, AdresseTitle, InfactTitle, VenstreTitle, Tv2Stripped,
     "Norstat for NRK og Adresseavisen", "Respons for Bergens Tidende og VG",
     "Respons for Bergens Tidende", "InFact for Nordlys", "InFact for Nordlys og TV2",
     "Kantar for TV2", "Ipsos for Dagbladet", "Opinion for Dagsavisen",
     "Norfakta for Nationen og Klassekampen", "Sentio", "Norstat", "Ukjent",
     "Telemarksavisa", "Opinion for Firda", "Dagbladet"}

ClassifyScopes == {Absent, "national", "regional", "unknown"}
ClassifyRegions == {Absent, "Oslo"}

InitClassify ==
    /\ elections = NoData
    /\ publicData = NoData
    /\ lastOp = Op("none")
    /\ lastBatch = <<>>
    /\ runs = 0
    /\ pollDate = NoDate
    /\ assigned = Absent
    /\ pc = "stored"
    /\ \E pollster \in ClassifyPollsters, scope \in ClassifyScopes,
          region \in ClassifyRegions :
           scan = [script |-> "classify",
                   poll |-> [EntryOf(5601).poll EXCEPT !.pollster = pollster,
                                                      !.scope = scope,
                                                      !.region = region],
                   got |-> UnknownVerdict]
    /\ dataFile = "whole"
    /\ wire = Quiet
    /\ summary = NoSummary

\* classifyAllPolls, the body of its loop for one poll
ClassifyOne ==
    /\ pc = "stored"
    /\ scan.script = "classify"
    /\ scan' = [scan EXCEPT !.got = classifyPoll(scan.poll),
                            !.poll = SetScopeKeepRegion(scan.poll, classifyPoll(scan.poll))]
    /\ pc' = "classified"
    /\ UNCHANGED <<elections, publicData, dataFile, wire, summary>>
    /\ Frame

NextClassify == ClassifyOne

SpecClassify == InitClassify /\ [][NextClassify]_vars


\* C21: from the pollster string alone the smart classifier answers in a fixed
\* order: a known national outlet gives national before any regional outlet is
\* looked at; otherwise a known regional outlet gives regional with the region
\* mapped to that outlet; otherwise a known survey company gives national;
\* otherwise unknown.
PollsterOrder(pollster) ==
    LET has(n) == Includes(pollster, n)
        regional == FirstMatch(RegionalOutlets, has)
    IN  IF \E n \in Range(NationalOutlets) : has(n) THEN <<"national", Absent>>
        ELSE IF regional # Absent THEN <<"regional", guessRegionFromOutlet(regional)>>
        ELSE IF \E c \in Companies : has(c) THEN <<"national", Absent>>
        ELSE <<"unknown", Absent>>

C21_PollsterOrder ==
    (scan.script = "classify" /\ pc = "classified") =>
        <<scan.got.scope, scan.got.region>> = PollsterOrder(scan.poll.pollster)


(***************************************************************************)
(* The rolling average                                                     *)
(***************************************************************************)
\* The input polls whose distance from x is at most half the window, in the
\* order of the sorted copy.
Around(x) ==
    SelectSeq(SortByDays[scan.polls],
              LAMBDA poll : 2 * Abs(poll.daysUntilElection - x) <= scan.windowDays)

\* f * 2^(0 - e) as a natural number, for e no greater than the exponent of f
Scaled(f, e) == IF BigIsZero(f.m) THEN BigZero ELSE BigShiftLeft[f.m, f.e - e]

\* the exponent of 0.1, the smallest nonzero percentage with one decimal
FineExponent == FloatOfTenths[1].e

ExactSum[w \in Seq(ChartPolls)] ==
    IF w = <<>> THEN BigZero
    ELSE BigAdd[ExactSum[SubSeq(w, 1, Len(w) - 1)],
                Scaled(FloatOfTenths[w[Len(w)].mdgPercentage], FineExponent)]

\* y * Len(w) is the sum of the values of w: y is their arithmetic mean
IsMeanOf(y, w) ==
    /\ y.e >= FineExponent
    /\ BigMulSmall[Scaled(y, FineExponent), Len(w)] = ExactSum[w]

DaysOf(polls) == {polls[i].daysUntilElection : i \in DOMAIN polls}
ValuesOf(polls) == {polls[i].mdgPercentage : i \in DOMAIN polls}

\* C23: a series in which every poll has the same percentage v gives an output
\* in which every point has y = v, and for a series of at least one poll the
\* returned output covers the observed range: it starts at the smallest
\* daysUntilElection and ends less than one step before the largest.
C23_ConstantSeries ==
    (scan.script = "average" /\ Len(scan.polls) >= 1
        /\ \E v \in ShortValues : ValuesOf(scan.polls) = {v}) =>
        /\ \A i \in DOMAIN scan.averages :
               \A v \in ValuesOf(scan.polls) : scan.averages[i].y = FloatOfTenths[v]
        /\ pc = "returned" =>
               /\ scan.averages # <<>>
               /\ scan.averages[1].x = Min(DaysOf(scan.polls))
               /\ scan.averages[Len(scan.averages)].x
                      + StepOver(Min(DaysOf(scan.polls)), Max(DaysOf(scan.polls)))
                  > Max(DaysOf(scan.polls))


\* C24: the resampling step is never smaller than 3, the x positions of the
\* output are strictly increasing and at least one step apart, and whatever
\* the observed range no more than 101 positions are resampled, so that the
\* output has no more than 101 points.
C24_BoundedResampling ==
    (scan.script = "average" /\ pc \in {"loop", "returned"} /\ Len(scan.polls) >= 2) =>
        /\ scan.step >= 3
        /\ \A i \in DOMAIN scan.averages :
               i > 1 => scan.averages[i].x >= scan.averages[i - 1].x + scan.step
        /\ (scan.day - scan.minDays) \div scan.step <= 101
        /\ Len(scan.averages) <= 101


\* C25: the incremental update loses no in-window poll to a nearer neighbouring
\* election: a fetched poll dated between 0 and 730 days before a known
\* election is filed under that election's cycle, also when the previous
\* election is nearer or equally near.
C25_NoPollLostToNeighbour ==
    lastOp.name = "assign" =>
        \A y \in UpdaterYears :
            (ELECTION_DATES[y] - pollDate \in 0 .. WindowDays) => assigned = y


\* C26: a scan of fetchNewPolls(startId, maxChecks) issues at most maxChecks
\* fetches, each for an id not below startId and above the id fetched before
\* it, and no fetch of an update run is for an id that is already stored.
C26_BoundedDistinctFetches ==
    [][(scan.script = "update" /\ wire'.requests > wire.requests) =>
           /\ wire'.requests <= MaxChecks
           /\ scan'.last.id >= scan.startId
           /\ wire.requests > 0 => scan'.last.id > scan.last.id
           /\ scan'.last.id \notin IdsOf(elections)]_vars


\* A page of the scanned site that an update run stores when it fetches it:
\* it has a date and a percentage and lies in a cycle's window.
Storable(id) ==
    FoundOf(UpdaterDetailsOf(SitePage(scan.site, id), id, FALSE)) # <<>>

\* the ids a poll to come can have: up to the second page past the catalogue
LaterIds == (Min(IdsOf(Merge(NoData, <<EntryOf(5601)>>).data)) + 1) .. (LastCatalogued + 32)

\* C27: repeated update runs make progress: a poll of the source whose id is
\* above the highest stored id and which a run would store is eventually
\* inserted, whatever ids between the stored maximum and it are missing,
\* unparseable or out of window.
C27_EventuallyInserted ==
    \A id \in LaterIds :
        [](( /\ scan.script = "update"
             /\ findHighestPollId(elections) > 0
             /\ findHighestPollId(elections) < id
             /\ Storable(id) )
           => <>(id \in IdsOf(elections)))


\* The passes that fetch the page of a stored, classified poll to verify its
\* scope, and what the verifier of each makes of a page when the fetch
\* succeeds.
VerifyingPasses == {"fix-classification", "misclassified", "infact", "final"}

VerdictOf(pass, url) ==
    CASE pass = "fix-classification" -> FixerScope(url, {})
      [] pass = "misclassified" -> MisclassifiedScope(url, {})
      [] pass = "infact" -> TableScope(url, {})
      [] pass = "final" -> FinalScope(url, {})

\* C28: in every re-classification pass a poll whose verification gives scope
\* unknown (its page gives no usable evidence, so that the verifier returns
\* unknown whether or not the fetch fails) keeps the scope and the region it
\* had stored before the pass.
C28_UnverifiedKeepsScope ==
    [][lastOp'.name \in VerifyingPasses =>
          \A y \in DOMAIN elections :
              \A i \in DOMAIN elections[y].polls :
                  VerdictOf(lastOp'.name, elections[y].polls[i].url).scope = "unknown" =>
                      /\ elections'[y].polls[i].scope = elections[y].polls[i].scope
                      /\ elections'[y].polls[i].region = elections[y].polls[i].region]_vars


\* The poll of a dataset with this url, the first one.
PollAt(data, id) == (CHOOSE r \in Stored(data) : r.poll.url.id = id).poll

SortedAndUnique(data) ==
    \A y \in DOMAIN data :
        \A i, j \in DOMAIN data[y].polls :
            i < j => /\ data[y].polls[i].date <= data[y].polls[j].date
                     /\ data[y].polls[i].url # data[y].polls[j].url

\* C29: when an update run and a classification pass overlap, no write is
\* lost: once both have ended, the data file holds every poll the update run
\* inserted, with every scope and region the pass gave to the polls it loaded
\* and changed, and is sorted and free of duplicates.
C29_NoLostWrite ==
    (scan.script = "overlap" /\ scan.updater.pc = "done" /\ scan.fixer.pc = "done") =>
        /\ IdsOf(scan.updater.data) \subseteq IdsOf(elections)
        /\ \A id \in IdsOf(scan.loaded) :
               PollAt(scan.fixer.data, id).scope # PollAt(scan.loaded, id).scope =>
                   /\ id \in IdsOf(elections)
                   /\ PollAt(elections, id).scope = PollAt(scan.fixer.data, id).scope
                   /\ PollAt(elections, id).region = PollAt(scan.fixer.data, id).region
        /\ SortedAndUnique(elections)


\* x <= y for numbers of the chart code
FloatAtMost(x, y) == ~FloatLess(y, x)

\* C30: every point (x, y) of the output lies inside the bounding box of the
\* input: x between the smallest and the largest daysUntilElection, y between
\* the smallest and the largest mdgPercentage; the output is empty when the
\* input has fewer than 2 polls; and the input list is never changed.
C30_InsideBoundingBox ==
    /\ [](scan.script = "average" =>
            /\ \A i \in DOMAIN scan.averages :
                   /\ Min(DaysOf(scan.polls)) <= scan.averages[i].x
                   /\ scan.averages[i].x <= Max(DaysOf(scan.polls))
                   /\ FloatAtMost(FloatOfTenths[Min(ValuesOf(scan.polls))],
                                  scan.averages[i].y)
                   /\ FloatAtMost(scan.averages[i].y,
                                  FloatOfTenths[Max(ValuesOf(scan.polls))])
            /\ Len(scan.polls) < 2 => scan.averages = <<>>)
    /\ [][scan.script = "average" => scan'.polls = scan.polls]_vars

====
